---- MODULE Spec2Model ----
(***************************************************************************)
(* A model of the command dispatch engine of @ls-stack/cli                 *)
(* (src/src/createCli.ts): the argument parser parseArgs, the alias        *)
(* validation of createCLI, command resolution in runCmd and the dispatch  *)
(* of one invocation.                                                      *)
(*                                                                         *)
(* Strings are TLA+ strings; startsWith, slice and Number are computed on  *)
(* their characters.  A value of the parsed record is a tagged record, so  *)
(* that the string "7" and the number 7 are different values.  Cursors are *)
(* 0-based as in the source; TLA+ sequences are 1-based, so rawArgs[i] of  *)
(* the source is rawArgs[i + 1] here.                                      *)
(*                                                                         *)
(* Inputs: the entries of a schema have distinct keys and distinct names,  *)
(* a declared `default` is a defined value, a declared short is a          *)
(* non-empty string, and a registry has at least one command.  In a run   *)
(* of createCLI the help is the list of the commands it shows; the         *)
(* argument summaries of the help texts are modelled apart, as functions   *)
(* of a schema, and so is the progress bar of createProgressBar            *)
(* (src/unnamed/part_001).  A                                              *)
(* prompt of cliInput either returns a value or rejects with an error, of  *)
(* which the model keeps (e instanceof Error) and e.name; the handler of a *)
(* command either settles or throws.  sortBy and getAscIndexOrder of       *)
(* @ls-stack/utils are taken as a stable ascending sort in which the index *)
(* -1 comes last.                                                          *)
(***************************************************************************)
EXTENDS Integers, Sequences, FiniteSets, TLC

VARIABLES
    cmds,             \* the registry: sequence of commands in declaration order
    sort,             \* createCLI's option sort (NoSort when there is none)
    cmdFromTerminal,  \* process.argv[2] (Absent when there is none)
    cmdArgs,          \* process.argv.slice(3)
    runCmdId,         \* createCLI's local runCmdId
    cmd,              \* runCmd's parameter cmd
    matched,          \* index in cmds of the command runCmd matched (0: none)
    selectedCmd,      \* interactive mode: the command picked in the second menu
    collectedArgs,    \* interactive mode: the values collected so far
    argCursor,        \* interactive mode: required positionals prompted so far
    answer,           \* how the last cliInput prompt ended (NoAnswer: none yet)
    bar,              \* createProgressBar's currentValue, totalValue, isRunning
    rawArgs,          \* runCmd's parameter args, parseArgs' parameter rawArgs
    commandArgs,      \* parseArgs' parameter commandArgs
    parsed,           \* parseArgs' local parsed
    positionalIndex,  \* parseArgs' local positionalIndex
    i,                \* parseArgs' local i
    pc,               \* control position
    stderr,           \* console.error lines, in order
    stdout,           \* what was printed or prompted, in order
    invoked,          \* handler invocations, in order: [cmdId, args]
    exitCode          \* process.exit status (NotExited while running)

vars == <<cmds, sort, cmdFromTerminal, cmdArgs, runCmdId, cmd, matched,
          selectedCmd, collectedArgs, argCursor, answer, bar, rawArgs, commandArgs,
          parsed, positionalIndex, i, pc, stderr, stdout, invoked, exitCode>>

parseVars == <<rawArgs, commandArgs, parsed, positionalIndex, i>>
cliVars == <<cmds, sort, cmdFromTerminal, cmdArgs, runCmdId, cmd, matched,
             selectedCmd, collectedArgs, argCursor, answer, bar>>

-----------------------------------------------------------------------------
(* Bounds of the model *)

MaxArgs == 2
MaxSchemaLen == 2
MaxCmds == 2
MaxIgnoredArgs == 1

-----------------------------------------------------------------------------
(* Strings *)

\* String.prototype.startsWith
StartsWith(s, prefix) ==
    /\ Len(s) >= Len(prefix)
    /\ SubSeq(s, 1, Len(prefix)) = prefix

\* String.prototype.slice(k)
Slice(s, k) == SubSeq(s, k + 1, Len(s))

DigitValue(c) ==
    CASE c = "0" -> 0 [] c = "1" -> 1 [] c = "2" -> 2 [] c = "3" -> 3
      [] c = "4" -> 4 [] c = "5" -> 5 [] c = "6" -> 6 [] c = "7" -> 7
      [] c = "8" -> 8 [] c = "9" -> 9 [] OTHER -> -1

RECURSIVE DigitsValue(_, _)
\* the value of a string of decimal digits (acc is the value read so far),
\* or -1 when some character is not a digit
DigitsValue(s, acc) ==
    IF Len(s) = 0 THEN acc
    ELSE LET d == DigitValue(SubSeq(s, 1, 1))
         IN  IF d < 0 THEN -1 ELSE DigitsValue(Slice(s, 1), acc * 10 + d)

NaN == [isNaN |-> TRUE, n |-> 0]

\* Number(value) of JavaScript on the strings of the model: the empty string
\* is 0, an optionally signed string of decimal digits is its value, and
\* anything else is NaN.
Number(s) ==
    IF Len(s) = 0 THEN [isNaN |-> FALSE, n |-> 0]
    ELSE LET signed == SubSeq(s, 1, 1) \in {"-", "+"}
             digits == IF signed THEN Slice(s, 1) ELSE s
             v      == DigitsValue(digits, 0)
         IN  IF Len(digits) = 0 \/ v < 0 THEN NaN
             ELSE [isNaN |-> FALSE,
                   n |-> IF SubSeq(s, 1, 1) = "-" THEN 0 - v ELSE v]

-----------------------------------------------------------------------------
(* Values of a parsed record: string | number | boolean | undefined *)

Undefined == [t |-> "undefined", s |-> "", n |-> 0, b |-> FALSE]
Str(s) == [t |-> "string", s |-> s, n |-> 0, b |-> FALSE]
Num(n) == [t |-> "number", s |-> "", n |-> n, b |-> FALSE]
Bool(b) == [t |-> "boolean", s |-> "", n |-> 0, b |-> b]

-----------------------------------------------------------------------------
(* Argument schemas *)

ArgTypes == {"positional-string", "positional-number", "flag",
             "value-string-flag", "value-number-flag"}

\* the keys and the names of the entries of a schema, by position
ArgKeys == <<"k1", "k2", "k3", "k4">>
ArgNames == <<"v", "n", "w", "x">>

DefaultOf(type) ==
    IF type \in {"positional-number", "value-number-flag"}
    THEN Num(3000) ELSE Str("basic")

\* an entry of Record<string, Arg>; hasDefault is ('default' in argDef)
ArgDef(j, type, hasDefault) ==
    [key |-> ArgKeys[j], type |-> type, name |-> ArgNames[j],
     hasDefault |-> hasDefault,
     default |-> IF hasDefault THEN DefaultOf(type) ELSE Undefined]

ArgKinds ==
    {<<t, d>> : t \in ArgTypes \ {"flag"}, d \in BOOLEAN} \cup {<<"flag", FALSE>>}

SchemasOfLen(n) ==
    {[j \in 1..n |-> ArgDef(j, kinds[j][1], kinds[j][2])] :
        kinds \in [1..n -> ArgKinds]}

\* commandArgs?: Record<string, Arg>
NoArgs == [defined |-> FALSE, entries |-> <<>>]
Args(entries) == [defined |-> TRUE, entries |-> entries]

Schemas ==
    {NoArgs} \cup {Args(e) : e \in UNION {SchemasOfLen(n) : n \in 0..MaxSchemaLen}}

ArgTokens == {"a", "7", "", "--v", "--n"}

Argvs == UNION {[1..n -> ArgTokens] : n \in 0..MaxArgs}

-----------------------------------------------------------------------------
(* parseArgs *)

NotExited == -1

IsPositional(argDef) == StartsWith(argDef.type, "positional")

RECURSIVE PositionalArgs(_)
\* const positionalArgs = argEntries.filter(([, argDef]) =>
\*   argDef.type.startsWith('positional')), in declaration order
PositionalArgs(argEntries) ==
    IF argEntries = <<>> THEN <<>>
    ELSE (IF IsPositional(Head(argEntries)) THEN <<Head(argEntries)>> ELSE <<>>)
            \o PositionalArgs(Tail(argEntries))

\* argEntries.find(([, argDef]) => argDef.name === flagName): the index of
\* the first entry with that name, 0 when there is none
FindByName(argEntries, flagName) ==
    LET hits == {j \in 1..Len(argEntries) : argEntries[j].name = flagName}
    IN  IF hits = {} THEN 0 ELSE CHOOSE j \in hits : \A k \in hits : j <= k

\* SeedDefaults without the `default` branch: only the flags are seeded
SeedDefaultsFlagsOnly(argEntries) ==
    LET keys == {argEntries[j].key : j \in 1..Len(argEntries)}
        DefOf(k) == argEntries[CHOOSE j \in 1..Len(argEntries) :
                                    argEntries[j].key = k]
    IN  [k \in keys |->
            IF DefOf(k).type = "flag" THEN Bool(FALSE) ELSE Undefined]

\* "Initialize with defaults"
SeedDefaults(argEntries) ==
    LET keys == {argEntries[j].key : j \in 1..Len(argEntries)}
        DefOf(k) == argEntries[CHOOSE j \in 1..Len(argEntries) :
                                    argEntries[j].key = k]
    IN  [k \in keys |->
            IF DefOf(k).type = "flag" THEN Bool(FALSE)
            ELSE IF DefOf(k).hasDefault /\ DefOf(k).default # Undefined
                 THEN DefOf(k).default
                 ELSE Undefined]

MsgUnknownFlag(flagName) == "Error: Unknown flag --" \o flagName
MsgMissingValue(name) == "Error: Missing value for --" \o name
MsgInvalidFlagNumber(value, name) ==
    "Error: Invalid number \"" \o value \o "\" for --" \o name
MsgInvalidNumber(value, name) ==
    "Error: Invalid number \"" \o value \o "\" for " \o name
MsgMissingRequired(name) ==
    "Error: Missing required argument <" \o name \o ">"

\* The state of a parse: the locals parsed, positionalIndex and i, and the
\* message with which the parse called process.exit(1) ("" while it has not)
ParseState(p, pi, c, e) ==
    [parsed |-> p, positionalIndex |-> pi, i |-> c, error |-> e]

\* ScanFlag with the unknown flag skipped (i++) instead of reported
ScanFlagSkipUnknown(raw, argEntries, st) ==
    LET currentArg == raw[st.i + 1]
        flagName   == Slice(currentArg, 2)
        flagEntry  == FindByName(argEntries, flagName)
        argDef     == argEntries[flagEntry]
        hasValue   == st.i + 1 < Len(raw)
        value      == raw[st.i + 2]
        numValue   == Number(value)
    IN  IF flagEntry = 0
        THEN [st EXCEPT !.i = @ + 1]
        ELSE IF argDef.type = "flag"
        THEN [st EXCEPT !.parsed[argDef.key] = Bool(TRUE), !.i = @ + 1]
        ELSE IF argDef.type \in {"value-string-flag", "value-number-flag"}
        THEN IF hasValue /\ value # "" /\ ~StartsWith(value, "--")
             THEN IF argDef.type = "value-number-flag"
                  THEN IF numValue.isNaN
                       THEN [st EXCEPT !.error =
                                MsgInvalidFlagNumber(value, argDef.name)]
                       ELSE [st EXCEPT !.parsed[argDef.key] = Num(numValue.n),
                                       !.i = @ + 2]
                  ELSE [st EXCEPT !.parsed[argDef.key] = Str(value),
                                  !.i = @ + 2]
             ELSE [st EXCEPT !.error = MsgMissingValue(argDef.name)]
        ELSE [st EXCEPT !.i = @ + 1]

\* ScanFlag with the cursor advanced by 1, not 2, over a value flag
ScanFlagAdvanceOne(raw, argEntries, st) ==
    LET currentArg == raw[st.i + 1]
        flagName   == Slice(currentArg, 2)
        flagEntry  == FindByName(argEntries, flagName)
        argDef     == argEntries[flagEntry]
        hasValue   == st.i + 1 < Len(raw)
        value      == raw[st.i + 2]
        numValue   == Number(value)
    IN  IF flagEntry = 0
        THEN [st EXCEPT !.error = MsgUnknownFlag(flagName)]
        ELSE IF argDef.type = "flag"
        THEN [st EXCEPT !.parsed[argDef.key] = Bool(TRUE), !.i = @ + 1]
        ELSE IF argDef.type \in {"value-string-flag", "value-number-flag"}
        THEN IF hasValue /\ value # "" /\ ~StartsWith(value, "--")
             THEN IF argDef.type = "value-number-flag"
                  THEN IF numValue.isNaN
                       THEN [st EXCEPT !.error =
                                MsgInvalidFlagNumber(value, argDef.name)]
                       ELSE [st EXCEPT !.parsed[argDef.key] = Num(numValue.n),
                                       !.i = @ + 1]
                  ELSE [st EXCEPT !.parsed[argDef.key] = Str(value),
                                  !.i = @ + 1]
             ELSE [st EXCEPT !.error = MsgMissingValue(argDef.name)]
        ELSE [st EXCEPT !.i = @ + 1]

\* the `--` branch of one iteration of the scan
ScanFlag(raw, argEntries, st) ==
    LET currentArg == raw[st.i + 1]
        flagName   == Slice(currentArg, 2)
        flagEntry  == FindByName(argEntries, flagName)
        argDef     == argEntries[flagEntry]
        hasValue   == st.i + 1 < Len(raw)
        value      == raw[st.i + 2]
        numValue   == Number(value)
    IN  IF flagEntry = 0
        THEN [st EXCEPT !.error = MsgUnknownFlag(flagName)]
        ELSE IF argDef.type = "flag"
        THEN [st EXCEPT !.parsed[argDef.key] = Bool(TRUE), !.i = @ + 1]
        ELSE IF argDef.type \in {"value-string-flag", "value-number-flag"}
        THEN IF hasValue /\ value # "" /\ ~StartsWith(value, "--")
             THEN IF argDef.type = "value-number-flag"
                  THEN IF numValue.isNaN
                       THEN [st EXCEPT !.error =
                                MsgInvalidFlagNumber(value, argDef.name)]
                       ELSE [st EXCEPT !.parsed[argDef.key] = Num(numValue.n),
                                       !.i = @ + 2]
                  ELSE [st EXCEPT !.parsed[argDef.key] = Str(value),
                                  !.i = @ + 2]
             ELSE [st EXCEPT !.error = MsgMissingValue(argDef.name)]
        ELSE [st EXCEPT !.i = @ + 1]

\* ScanPositional with the slot taken from the cursor i instead of
\* positionalIndex
ScanPositionalByCursor(raw, argEntries, st) ==
    LET currentArg     == raw[st.i + 1]
        positionalArgs == PositionalArgs(argEntries)
        argDef         == positionalArgs[st.i + 1]
        numValue       == Number(currentArg)
    IN  IF st.i < Len(positionalArgs)
        THEN IF argDef.type = "positional-number"
             THEN IF numValue.isNaN
                  THEN [st EXCEPT !.error =
                            MsgInvalidNumber(currentArg, argDef.name)]
                  ELSE [st EXCEPT !.parsed[argDef.key] = Num(numValue.n),
                                  !.positionalIndex = @ + 1, !.i = @ + 1]
             ELSE [st EXCEPT !.parsed[argDef.key] = Str(currentArg),
                             !.positionalIndex = @ + 1, !.i = @ + 1]
        ELSE [st EXCEPT !.i = @ + 1]

\* ScanPositional without the isNaN check
ScanPositionalUnchecked(raw, argEntries, st) ==
    LET currentArg     == raw[st.i + 1]
        positionalArgs == PositionalArgs(argEntries)
        argDef         == positionalArgs[st.positionalIndex + 1]
        numValue       == Number(currentArg)
    IN  IF st.positionalIndex < Len(positionalArgs)
        THEN IF argDef.type = "positional-number"
             THEN [st EXCEPT !.parsed[argDef.key] = Num(numValue.n),
                             !.positionalIndex = @ + 1, !.i = @ + 1]
             ELSE [st EXCEPT !.parsed[argDef.key] = Str(currentArg),
                             !.positionalIndex = @ + 1, !.i = @ + 1]
        ELSE [st EXCEPT !.i = @ + 1]

\* ScanPositional in which a token beyond the declared positional arguments
\* is given to the last of them
ScanPositionalOverwrite(raw, argEntries, st) ==
    LET currentArg     == raw[st.i + 1]
        positionalArgs == PositionalArgs(argEntries)
        slot           == IF st.positionalIndex < Len(positionalArgs)
                          THEN st.positionalIndex + 1 ELSE Len(positionalArgs)
        argDef         == positionalArgs[slot]
        numValue       == Number(currentArg)
    IN  IF Len(positionalArgs) > 0
        THEN IF argDef.type = "positional-number"
             THEN IF numValue.isNaN
                  THEN [st EXCEPT !.error =
                            MsgInvalidNumber(currentArg, argDef.name)]
                  ELSE [st EXCEPT !.parsed[argDef.key] = Num(numValue.n),
                                  !.positionalIndex = slot, !.i = @ + 1]
             ELSE [st EXCEPT !.parsed[argDef.key] = Str(currentArg),
                             !.positionalIndex = slot, !.i = @ + 1]
        ELSE [st EXCEPT !.i = @ + 1]

\* ScanPositional without the i++ for a token beyond the declared
\* positional arguments
ScanPositionalNoAdvance(raw, argEntries, st) ==
    LET currentArg     == raw[st.i + 1]
        positionalArgs == PositionalArgs(argEntries)
        argDef         == positionalArgs[st.positionalIndex + 1]
        numValue       == Number(currentArg)
    IN  IF st.positionalIndex < Len(positionalArgs)
        THEN IF argDef.type = "positional-number"
             THEN IF numValue.isNaN
                  THEN [st EXCEPT !.error =
                            MsgInvalidNumber(currentArg, argDef.name)]
                  ELSE [st EXCEPT !.parsed[argDef.key] = Num(numValue.n),
                                  !.positionalIndex = @ + 1, !.i = @ + 1]
             ELSE [st EXCEPT !.parsed[argDef.key] = Str(currentArg),
                             !.positionalIndex = @ + 1, !.i = @ + 1]
        ELSE st

\* the positional branch of one iteration of the scan
ScanPositional(raw, argEntries, st) ==
    LET currentArg     == raw[st.i + 1]
        positionalArgs == PositionalArgs(argEntries)
        argDef         == positionalArgs[st.positionalIndex + 1]
        numValue       == Number(currentArg)
    IN  IF st.positionalIndex < Len(positionalArgs)
        THEN IF argDef.type = "positional-number"
             THEN IF numValue.isNaN
                  THEN [st EXCEPT !.error =
                            MsgInvalidNumber(currentArg, argDef.name)]
                  ELSE [st EXCEPT !.parsed[argDef.key] = Num(numValue.n),
                                  !.positionalIndex = @ + 1, !.i = @ + 1]
             ELSE [st EXCEPT !.parsed[argDef.key] = Str(currentArg),
                             !.positionalIndex = @ + 1, !.i = @ + 1]
        ELSE [st EXCEPT !.i = @ + 1]

\* one iteration of `while (i < rawArgs.length)`
ScanStep(raw, argEntries, st) ==
    IF StartsWith(raw[st.i + 1], "--")
    THEN ScanFlag(raw, argEntries, st)
    ELSE ScanPositional(raw, argEntries, st)

\* MissingRequired without the validation: nothing is ever missing
MissingRequiredNever(argEntries, p) == ""

\* MissingRequired looking at the first positional argument only
MissingRequiredFirstOnly(argEntries, p) ==
    LET positionalArgs == PositionalArgs(argEntries)
    IN  IF /\ Len(positionalArgs) > 0
           /\ ~positionalArgs[1].hasDefault
           /\ p[positionalArgs[1].key] = Undefined
        THEN MsgMissingRequired(positionalArgs[1].name)
        ELSE ""

\* "Validate required positional arguments": the message of the first
\* positional without a default that is still undefined, "" when none is
MissingRequired(argEntries, p) ==
    LET positionalArgs == PositionalArgs(argEntries)
        missing == {j \in 1..Len(positionalArgs) :
                        /\ ~positionalArgs[j].hasDefault
                        /\ p[positionalArgs[j].key] = Undefined}
    IN  IF missing = {} THEN ""
        ELSE MsgMissingRequired(
                positionalArgs[CHOOSE j \in missing :
                                  \A k \in missing : j <= k].name)

RECURSIVE ScanAll(_, _, _)
\* the whole scan, from the state st
ScanAll(raw, argEntries, st) ==
    IF st.error # "" \/ st.i >= Len(raw) THEN st
    ELSE ScanAll(raw, argEntries, ScanStep(raw, argEntries, st))

\* parseArgs(rawArgs, commandArgs): the result of the whole call,
\* [error |-> the message of the process.exit(1), or "", parsed |-> the
\*  record returned when error = ""]
ParseArgs(raw, schema) ==
    IF ~schema.defined THEN [error |-> "", parsed |-> <<>>]
    ELSE LET st == ScanAll(raw, schema.entries,
                           ParseState(SeedDefaults(schema.entries), 0, 0, ""))
             missing == MissingRequired(schema.entries, st.parsed)
         IN  IF st.error # "" THEN [error |-> st.error, parsed |-> <<>>]
             ELSE IF missing # "" THEN [error |-> missing, parsed |-> <<>>]
             ELSE [error |-> "", parsed |-> st.parsed]

-----------------------------------------------------------------------------
(* The steps of parseArgs as actions.  pc: "parseArgs" on entry, "scan" in *)
(* the loop, "validate" after it, "parsed" when the record was returned,   *)
(* "exited" after process.exit.                                            *)

Exit(code) ==
    /\ exitCode' = code
    /\ pc' = "exited"

\* parseArgs up to the beginning of the scan
ParseStart ==
    /\ pc = "parseArgs"
    /\ IF ~commandArgs.defined
       THEN /\ parsed' = <<>>
            /\ pc' = "parsed"
       ELSE /\ parsed' = SeedDefaults(commandArgs.entries)
            /\ pc' = "scan"
    /\ positionalIndex' = 0
    /\ i' = 0
    /\ UNCHANGED <<rawArgs, commandArgs, cliVars, stderr, stdout, invoked,
                   exitCode>>

\* one iteration of the scan
Scan ==
    /\ pc = "scan"
    /\ i < Len(rawArgs)
    /\ LET st == ScanStep(rawArgs, commandArgs.entries,
                          ParseState(parsed, positionalIndex, i, ""))
       IN  /\ parsed' = st.parsed
           /\ positionalIndex' = st.positionalIndex
           /\ i' = st.i
           /\ IF st.error # ""
              THEN /\ stderr' = Append(stderr, st.error)
                   /\ Exit(1)
              ELSE /\ UNCHANGED <<stderr, exitCode>>
                   /\ pc' = "scan"
    /\ UNCHANGED <<rawArgs, commandArgs, cliVars, stdout, invoked>>

\* Validate reporting the missing argument without process.exit(1)
ValidateNoExit ==
    /\ pc = "scan"
    /\ i >= Len(rawArgs)
    /\ LET missing == MissingRequired(commandArgs.entries, parsed)
       IN  stderr' = IF missing # "" THEN Append(stderr, missing) ELSE stderr
    /\ pc' = "parsed"
    /\ UNCHANGED <<parseVars, cliVars, stdout, invoked, exitCode>>

\* the end of the scan: validation of the required positionals and return
Validate ==
    /\ pc = "scan"
    /\ i >= Len(rawArgs)
    /\ LET missing == MissingRequired(commandArgs.entries, parsed)
       IN  IF missing # ""
           THEN /\ stderr' = Append(stderr, missing)
                /\ Exit(1)
           ELSE /\ UNCHANGED <<stderr, exitCode>>
                /\ pc' = "parsed"
    /\ UNCHANGED <<parseVars, cliVars, stdout, invoked>>

-----------------------------------------------------------------------------
(* The registry *)

\* an optional string: process.argv[2], a command's short
Absent == [defined |-> FALSE, s |-> ""]
Token(s) == [defined |-> TRUE, s |-> s]

\* JavaScript truthiness of an optional string
Truthy(tok) == tok.defined /\ tok.s # ""

CmdIds == {"d", "hello", "i"}
Shorts == {Absent, Token("d"), Token("h"), Token("help")}

\* the schema each command of the model declares
ArgsOf(id) ==
    CASE id = "d" ->
            Args(<<ArgDef(1, "positional-number", FALSE),
                   ArgDef(2, "value-string-flag", FALSE),
                   ArgDef(3, "positional-string", FALSE),
                   ArgDef(4, "positional-string", TRUE)>>)
      [] id = "i" -> Args(<<ArgDef(1, "flag", FALSE)>>)
      [] OTHER -> NoArgs

Command(id, short) == [id |-> id, short |-> short, args |-> ArgsOf(id)]

\* registries of n commands: the identifiers are the keys of an object, so
\* they are distinct
RegistriesOfLen(n) ==
    {[j \in 1..n |-> Command(ids[j], shorts[j])] :
        ids \in {f \in [1..n -> CmdIds] :
                    \A a, b \in 1..n : a # b => f[a] # f[b]},
        shorts \in [1..n -> Shorts]}

Registries == UNION {RegistriesOfLen(n) : n \in 1..MaxCmds}

\* sort?: NoInfer<C>[]
NoSort == [defined |-> FALSE, list |-> <<>>]
SortList(list) == [defined |-> TRUE, list |-> list]

\* the option is absent, or it names the command declared last; it is given
\* on the invocations without arguments only, the others being those of a
\* named command, which never reads it
SortLists(registry, args) ==
    IF args = <<>>
    THEN {NoSort, SortList(<<registry[Len(registry)].id>>)}
    ELSE {NoSort}

CmdTokens ==
    {Absent} \cup
    {Token(t) : t \in {"", "d", "hello", "i", "h", "-h", "--help", "help", "zz"}}

CliArgTokens == {"a", "7", "--n", "-h", "--help"}

CliArgvs == UNION {[1..n -> CliArgTokens] : n \in 0..MaxArgs}

\* const [, , cmdFromTerminal, ...cmdArgs] = process.argv: the arguments
\* that can follow a first token.  There is none without a first token, and
\* those after an empty token, `i` or a help token, which createCLI never
\* reads, are at most MaxIgnoredArgs.
ArgvsAfter(first) ==
    IF ~first.defined THEN {<<>>}
    ELSE IF first.s \in {"", "i", "h", "-h", "--help", "help"}
    THEN {args \in CliArgvs : Len(args) <= MaxIgnoredArgs}
    ELSE CliArgvs

-----------------------------------------------------------------------------
(* createCLI: alias validation *)

reservedShortCmds == {"i", "h"}

MsgReserved(short) ==
    "Short cmd \"" \o short \o "\" is reserved for built-in commands"
MsgDuplicated(short) == "Short cmd \"" \o short \o "\" is duplicated"
\* MsgNotFound without the token
MsgNotFoundUnnamed(c) == "Command not found"

MsgNotFound(c) == "Command '" \o c \o "' not found"

RECURSIVE ShortErrorNoDuplicates(_, _, _)
\* ShortError without the addedShortCmds.has(cmd.short) check
ShortErrorNoDuplicates(registry, j, addedShortCmds) ==
    IF j > Len(registry) THEN ""
    ELSE LET short == registry[j].short
         IN  IF ~Truthy(short)
             THEN ShortErrorNoDuplicates(registry, j + 1, addedShortCmds)
             ELSE IF short.s \in reservedShortCmds THEN MsgReserved(short.s)
             ELSE ShortErrorNoDuplicates(registry, j + 1,
                                         addedShortCmds \cup {short.s})

RECURSIVE ShortError(_, _, _)
\* the loop over the registry from command j on, addedShortCmds being the
\* shorts seen before: the message of the first process.exit(1), or ""
ShortError(registry, j, addedShortCmds) ==
    IF j > Len(registry) THEN ""
    ELSE LET short == registry[j].short
         IN  IF ~Truthy(short)
             THEN ShortError(registry, j + 1, addedShortCmds)
             ELSE IF short.s \in reservedShortCmds THEN MsgReserved(short.s)
             ELSE IF short.s \in addedShortCmds THEN MsgDuplicated(short.s)
             ELSE ShortError(registry, j + 1, addedShortCmds \cup {short.s})

Event(kind, text) == [kind |-> kind, text |-> text, options |-> <<>>]
Prompt(kind, title, options) ==
    [kind |-> kind, text |-> title, options |-> options]

\* printHelp(), as an event of stdout: the commands it lists, in the order
\* of typedObjectEntries(cmds)
HelpEvent ==
    [kind |-> "help", text |-> "",
     options |-> [j \in 1..Len(cmds) |-> cmds[j].id]]

\* ValidateShorts going on to the dispatch without `if (!cmdFromTerminal)`
ValidateShortsNoPrompt ==
    /\ pc = "createCLI"
    /\ runCmdId' = cmdFromTerminal
    /\ LET error == ShortError(cmds, 1, {})
       IN  IF error # ""
           THEN /\ stderr' = Append(stderr, error)
                /\ Exit(1)
           ELSE /\ UNCHANGED <<stderr, exitCode>>
                /\ pc' = "dispatch"
    /\ UNCHANGED <<bar, cmds, sort, cmdFromTerminal, cmdArgs, cmd, matched,
                   selectedCmd, collectedArgs, argCursor, answer, parseVars,
                   stdout, invoked>>

\* createCLI up to the end of the validation loop
ValidateShorts ==
    /\ pc = "createCLI"
    /\ runCmdId' = cmdFromTerminal
    /\ LET error == ShortError(cmds, 1, {})
       IN  IF error # ""
           THEN /\ stderr' = Append(stderr, error)
                /\ Exit(1)
           ELSE /\ UNCHANGED <<stderr, exitCode>>
                /\ pc' = IF Truthy(cmdFromTerminal) THEN "dispatch"
                         ELSE "chooseAction"
    /\ UNCHANGED <<bar, cmds, sort, cmdFromTerminal, cmdArgs, cmd, matched,
                   selectedCmd, collectedArgs, argCursor, answer, parseVars,
                   stdout, invoked>>

-----------------------------------------------------------------------------
(* cliInput: how a prompt ends *)

PromptKinds == {"select", "text", "textWithAutocomplete", "confirm",
                "multipleSelect", "number"}

\* what a prompt of @inquirer/prompts rejects with: (e instanceof Error) and
\* e.name
Thrown(isError, name) == [isError |-> isError, name |-> name]

ErrorNames ==
    {"ExitPromptError", "AbortError", "AbortPromptError", "ValidationError"}

Errors ==
    {Thrown(TRUE, name) : name \in ErrorNames} \cup {Thrown(FALSE, "AbortError")}

\* isUserCancellation knowing Ctrl+C only
isUserCancellationCtrlC(e) == e.isError /\ e.name = "ExitPromptError"

isUserCancellation(e) ==
    /\ e.isError
    /\ e.name \in {"ExitPromptError", "AbortError", "AbortPromptError"}

\* outcomes of a prompt besides a value: the user cancels (process.exit(0)
\* in cliInput) or the prompt fails otherwise (handlePromptError: exit 1)
Cancelled == "<cancelled>"
Failed == "<failed>"

\* cliInput.number logs an error that is no cancellation and returns null
Null == "<null>"

handlePromptError(e) == IF isUserCancellation(e) THEN Cancelled ELSE Failed

\* Caught with the catch block of number being handlePromptError too
CaughtByHandler(kind, e) == handlePromptError(e)

\* the catch block of cliInput[kind]
Caught(kind, e) ==
    IF kind = "number"
    THEN IF isUserCancellation(e) THEN Cancelled ELSE Null
    ELSE handlePromptError(e)

\* how a prompt ended: it returned a value to its caller, or it rejected
NoAnswer == [t |-> "none", value |-> "", e |-> Thrown(FALSE, "")]
Returned(value) == [t |-> "returned", value |-> value, e |-> Thrown(FALSE, "")]
Rejected(e) == [t |-> "rejected", value |-> "", e |-> e]

\* the prompt in flight rejects with e and the catch block of cliInput[kind],
\* which is handlePromptError for every kind but number, ends the process
Rejects(kind, e) ==
    /\ answer' = Rejected(e)
    /\ IF Caught(kind, e) = Cancelled
       THEN /\ Exit(0)
            /\ UNCHANGED stderr
       ELSE /\ stderr' = Append(stderr, "prompt error")
            /\ Exit(1)

-----------------------------------------------------------------------------
(* createCLI: the prompt and the branches *)

\* `if (!cmdFromTerminal)`: the choose-help-or-interactive prompt
ChooseAction ==
    /\ pc = "chooseAction"
    /\ LET asked == Append(stdout, Prompt("select", "Choose an action",
                                          <<"run-cmd", "print-help">>))
       IN  \/ \E response \in {"run-cmd", "print-help"} :
                /\ answer' = Returned(response)
                /\ IF response = "print-help"
                   THEN /\ stdout' = Append(asked, HelpEvent)
                        /\ Exit(0)
                        /\ UNCHANGED <<runCmdId, stderr>>
                   ELSE /\ stdout' = asked
                        /\ runCmdId' = Token("i")
                        /\ pc' = "dispatch"
                        /\ UNCHANGED <<stderr, exitCode>>
           \/ \E e \in Errors :
                /\ stdout' = asked
                /\ Rejects("select", e)
                /\ UNCHANGED runCmdId
    /\ UNCHANGED <<bar, cmds, sort, cmdFromTerminal, cmdArgs, cmd, matched,
                   selectedCmd, collectedArgs, argCursor, parseVars, invoked>>

\* HelpTokens without `help` and `h`
HelpTokensDashed == {"-h", "--help"}

HelpTokens == {"-h", "--help", "help", "h"}

\* the branches of createCLI after the prompt: top-level help, interactive
\* mode, or runCmd(runCmdId, cmdArgs)
Dispatch ==
    /\ pc = "dispatch"
    /\ IF runCmdId.s \in HelpTokens
       THEN /\ stdout' = Append(stdout, HelpEvent)
            /\ Exit(0)
            /\ UNCHANGED <<cmd, rawArgs, stderr>>
       ELSE IF runCmdId.s = "i"
       THEN /\ pc' = "interactive"
            /\ UNCHANGED <<cmd, rawArgs, stderr, stdout, exitCode>>
       ELSE IF ~Truthy(runCmdId)
       THEN /\ stderr' = Append(stderr, "Command not found")
            /\ Exit(1)
            /\ UNCHANGED <<cmd, rawArgs, stdout>>
       ELSE /\ cmd' = runCmdId.s
            /\ rawArgs' = cmdArgs
            /\ pc' = "runCmd"
            /\ UNCHANGED <<stderr, stdout, exitCode>>
    /\ UNCHANGED <<bar, cmds, sort, cmdFromTerminal, cmdArgs, runCmdId, matched,
                   selectedCmd, collectedArgs, argCursor, answer, commandArgs,
                   parsed, positionalIndex, i, invoked>>

-----------------------------------------------------------------------------
(* runCmd *)

\* the first command of the registry, in declaration order, with
\* cmd === short || cmd === cmdId; 0 when there is none
Resolve(registry, c) ==
    LET hits == {j \in 1..Len(registry) :
                    \/ (registry[j].short.defined /\ c = registry[j].short.s)
                    \/ c = registry[j].id}
    IN  IF hits = {} THEN 0 ELSE CHOOSE j \in hits : \A k \in hits : j <= k

\* Array.prototype.includes
Includes(seq, x) == \E j \in 1..Len(seq) : seq[j] = x

\* HelpRequested looking at the first argument only
HelpRequestedFirst(args) == Len(args) > 0 /\ args[1] \in {"-h", "--help"}

\* args.includes('-h') || args.includes('--help')
HelpRequested(args) == Includes(args, "-h") \/ Includes(args, "--help")

\* runCmd(cmd, args) up to the call of parseArgs
RunCmd ==
    /\ pc = "runCmd"
    /\ LET m == Resolve(cmds, cmd)
       IN  /\ matched' = m
           /\ IF m = 0
              THEN /\ stderr' = Append(stderr, MsgNotFound(cmd))
                   /\ stdout' = Append(stdout, HelpEvent)
                   /\ Exit(1)
                   /\ UNCHANGED commandArgs
              ELSE IF HelpRequested(rawArgs)
              THEN /\ stdout' = Append(stdout, Event("cmdHelp", cmds[m].id))
                   /\ Exit(0)
                   /\ UNCHANGED <<commandArgs, stderr>>
              ELSE /\ stdout' = Append(stdout, Event("running", cmds[m].id))
                   /\ commandArgs' = cmds[m].args
                   /\ pc' = "parseArgs"
                   /\ UNCHANGED <<stderr, exitCode>>
    /\ UNCHANGED <<bar, cmds, sort, cmdFromTerminal, cmdArgs, runCmdId, cmd,
                   selectedCmd, collectedArgs, argCursor, answer, rawArgs,
                   parsed, positionalIndex, i, invoked>>

\* RunHandler without the await: process.exit(0) right after the call
RunHandlerNoAwait ==
    /\ pc = "parsed"
    /\ invoked' = Append(invoked, [cmdId |-> cmds[matched].id, args |-> parsed])
    /\ Exit(0)
    /\ UNCHANGED <<cliVars, parseVars, stderr, stdout>>

\* `await fn(parsedArgs)`: the handler of the matched command is called
\* with the record parseArgs returned
RunHandler ==
    /\ pc = "parsed"
    /\ invoked' = Append(invoked, [cmdId |-> cmds[matched].id, args |-> parsed])
    /\ pc' = "handler"
    /\ UNCHANGED <<cliVars, parseVars, stderr, stdout, exitCode>>

\* HandlerSettles returning to the call of the handler instead of exiting
HandlerSettlesNoExit ==
    /\ pc = "handler"
    /\ pc' = "parsed"
    /\ UNCHANGED <<cliVars, parseVars, stderr, stdout, invoked, exitCode>>

\* the handler settles: process.exit(0)
HandlerSettles ==
    /\ pc = "handler"
    /\ Exit(0)
    /\ UNCHANGED <<cliVars, parseVars, stderr, stdout, invoked>>

\* the handler throws or rejects: runCmd does not catch it, and the promise
\* of createCLI rejects without the engine having called process.exit
HandlerThrows ==
    /\ pc = "handler"
    /\ pc' = "rejected"
    /\ UNCHANGED <<cliVars, parseVars, stderr, stdout, invoked, exitCode>>

-----------------------------------------------------------------------------
(* Interactive mode *)

\* hasRequiredArgs(args)
hasRequiredArgs(args) ==
    /\ args.defined
    /\ \E j \in 1..Len(args.entries) :
        /\ args.entries[j].type \in {"positional-string", "positional-number"}
        /\ ~args.entries[j].hasDefault

RECURSIVE FilterCmds(_, _)
\* cmdEntries.filter(([, cmd]) => hasRequiredArgs(cmd.args) === required)
FilterCmds(entries, required) ==
    IF entries = <<>> THEN <<>>
    ELSE (IF hasRequiredArgs(Head(entries).args) = required
          THEN <<Head(entries)>> ELSE <<>>)
            \o FilterCmds(Tail(entries), required)

\* Array.prototype.indexOf (0-based, -1 when x is no element)
IndexOf(seq, x) ==
    LET hits == {j \in 1..Len(seq) : seq[j] = x}
    IN  IF hits = {} THEN -1
        ELSE (CHOOSE j \in hits : \A k \in hits : j <= k) - 1

\* Number.POSITIVE_INFINITY among the indexes of a sort list
Infinity == MaxCmds + 1

\* getAscIndexOrder of @ls-stack/utils: an index that is -1 sorts last
getAscIndexOrder(index) == IF index = -1 THEN Infinity ELSE index

\* the priority sortBy gives the j-th command of the registry
Priority(j) == getAscIndexOrder(IndexOf(sort.list, cmds[j].id))

\* the place of the j-th command after the stable ascending sort
Rank(j) ==
    Cardinality({k \in 1..Len(cmds) :
                    \/ Priority(k) < Priority(j)
                    \/ (Priority(k) = Priority(j) /\ k < j)}) + 1

\* let cmdEntries = typedObjectEntries(cmds);
\* if (sort) cmdEntries = sortBy(cmdEntries, ...)
cmdEntries ==
    IF ~sort.defined THEN cmds
    ELSE [r \in 1..Len(cmds) |->
            cmds[CHOOSE j \in 1..Len(cmds) : Rank(j) = r]]

availableCmds == FilterCmds(cmdEntries, FALSE)
cmdsWithRequiredArgs == FilterCmds(cmdEntries, TRUE)

RunWithArgs == "__run_with_args__"

IdsOf(entries) == [j \in 1..Len(entries) |-> entries[j].id]

\* selectOptions with the sentinel whatever cmdsWithRequiredArgs is
selectOptionsWithSentinel == IdsOf(availableCmds) \o <<RunWithArgs>>

\* the values of the options of the first menu
selectOptions ==
    IdsOf(availableCmds)
        \o (IF Len(cmdsWithRequiredArgs) > 0 THEN <<RunWithArgs>> ELSE <<>>)

Range(seq) == {seq[j] : j \in 1..Len(seq)}

\* the first menu of interactive mode
SelectCommand ==
    /\ pc = "interactive"
    /\ stdout' = Append(stdout,
                        Prompt("select", "Select a command", selectOptions))
    /\ \/ \E response \in Range(selectOptions) :
            /\ answer' = Returned(response)
            /\ IF response = RunWithArgs
               THEN /\ pc' = "selectWithArgs"
                    /\ UNCHANGED <<cmd, rawArgs, stderr, exitCode>>
               ELSE /\ cmd' = response
                    /\ rawArgs' = <<>>
                    /\ pc' = "runCmd"
                    /\ UNCHANGED <<stderr, exitCode>>
       \/ \E e \in Errors :
            /\ Rejects("select", e)
            /\ UNCHANGED <<cmd, rawArgs>>
    /\ UNCHANGED <<bar, cmds, sort, cmdFromTerminal, cmdArgs, runCmdId, matched,
                   selectedCmd, collectedArgs, argCursor, commandArgs, parsed,
                   positionalIndex, i, invoked>>

\* the second menu: the commands with required arguments
SelectWithArgs ==
    /\ pc = "selectWithArgs"
    /\ stdout' = Append(stdout, Prompt("select", "Select a command",
                                       IdsOf(cmdsWithRequiredArgs)))
    /\ \/ \E response \in Range(IdsOf(cmdsWithRequiredArgs)) :
            /\ answer' = Returned(response)
            /\ selectedCmd' = response
            /\ collectedArgs' = <<>>
            /\ argCursor' = 0
            /\ pc' = "collectArgs"
            /\ UNCHANGED <<stderr, exitCode>>
       \/ \E e \in Errors :
            /\ Rejects("select", e)
            /\ UNCHANGED <<selectedCmd, collectedArgs, argCursor>>
    /\ UNCHANGED <<bar, cmds, sort, cmdFromTerminal, cmdArgs, runCmdId, cmd, matched,
                   parseVars, invoked>>

\* const cmdDef = cmds[selectedCmd]
CmdDef(id) == cmds[CHOOSE j \in 1..Len(cmds) : cmds[j].id = id]

RECURSIVE RequiredPositionalsAny(_)
\* RequiredPositionals without the test of `default`
RequiredPositionalsAny(argEntries) ==
    IF argEntries = <<>> THEN <<>>
    ELSE (IF Head(argEntries).type
                    \in {"positional-string", "positional-number"}
          THEN <<Head(argEntries)>> ELSE <<>>)
            \o RequiredPositionalsAny(Tail(argEntries))

RECURSIVE RequiredPositionals(_)
\* the entries of a schema the collection loop prompts for, in order
RequiredPositionals(argEntries) ==
    IF argEntries = <<>> THEN <<>>
    ELSE (IF /\ Head(argEntries).type
                    \in {"positional-string", "positional-number"}
             /\ ~Head(argEntries).hasDefault
          THEN <<Head(argEntries)>> ELSE <<>>)
            \o RequiredPositionals(Tail(argEntries))

RECURSIVE DigitsOf(_)
\* the decimal digits of a natural number
DigitsOf(n) ==
    LET d == <<"0", "1", "2", "3", "4", "5", "6", "7", "8", "9">>[(n % 10) + 1]
    IN  IF n < 10 THEN d ELSE DigitsOf(n \div 10) \o d

\* String(value) of an integer
NumberToString(n) == IF n < 0 THEN "-" \o DigitsOf(0 - n) ELSE DigitsOf(n)

TextAnswers == {"a", "7", "--n"}
NumberAnswers == {7, 42}

\* one iteration of the collection loop that prompts: cliInput.text for a
\* string positional, cliInput.number (which may return null) for a number
CollectArg ==
    /\ pc = "collectArgs"
    /\ LET required == RequiredPositionals(CmdDef(selectedCmd).args.entries)
       IN  /\ argCursor < Len(required)
           /\ LET arg == required[argCursor + 1]
              IN  /\ stdout' = Append(stdout,
                        Event(IF arg.type = "positional-string"
                              THEN "text" ELSE "number", arg.name))
                  /\ \/ \E value \in TextAnswers :
                            /\ arg.type = "positional-string"
                            /\ answer' = Returned(value)
                            /\ collectedArgs' = Append(collectedArgs, value)
                            /\ argCursor' = argCursor + 1
                            /\ UNCHANGED <<pc, stderr, exitCode>>
                     \/ \E value \in NumberAnswers :
                            /\ arg.type = "positional-number"
                            /\ answer' = Returned(NumberToString(value))
                            /\ collectedArgs' =
                                    Append(collectedArgs, NumberToString(value))
                            /\ argCursor' = argCursor + 1
                            /\ UNCHANGED <<pc, stderr, exitCode>>
                     \/ \E e \in Errors :
                            /\ arg.type = "positional-number"
                            /\ Caught("number", e) = Null
                            /\ answer' = Rejected(e)
                            /\ stderr' = Append(stderr, "prompt error")
                            /\ argCursor' = argCursor + 1
                            /\ UNCHANGED <<pc, collectedArgs, exitCode>>
                     \/ \E e \in Errors :
                            /\ arg.type = "positional-number"
                            /\ Caught("number", e) = Cancelled
                            /\ answer' = Rejected(e)
                            /\ Exit(0)
                            /\ UNCHANGED <<collectedArgs, argCursor, stderr>>
                     \/ \E e \in Errors :
                            /\ arg.type = "positional-string"
                            /\ Rejects("text", e)
                            /\ UNCHANGED <<collectedArgs, argCursor>>
    /\ UNCHANGED <<bar, cmds, sort, cmdFromTerminal, cmdArgs, runCmdId, cmd, matched,
                   selectedCmd, parseVars, invoked>>

\* the end of the collection loop: runCmd(selectedCmd, collectedArgs)
RunCollected ==
    /\ pc = "collectArgs"
    /\ argCursor >= Len(RequiredPositionals(CmdDef(selectedCmd).args.entries))
    /\ cmd' = selectedCmd
    /\ rawArgs' = collectedArgs
    /\ pc' = "runCmd"
    /\ UNCHANGED <<bar, cmds, sort, cmdFromTerminal, cmdArgs, runCmdId, matched,
                   selectedCmd, collectedArgs, argCursor, answer, commandArgs,
                   parsed, positionalIndex, i, stderr, stdout, invoked,
                   exitCode>>

-----------------------------------------------------------------------------
(* createProgressBar: the bar's closure variables and its six methods.  The
   rendering writes to the terminal only and changes none of them. *)

MaxTotal == 7

Totals == 0 .. MaxTotal

\* Arguments of update: below, within and above every total
Values == 0 .. MaxTotal + 1

\* Arguments of increment; increment() is increment(1)
Deltas == {1, 2}

MathMin(a, b) == IF a <= b THEN a ELSE b

createProgressBar(total) ==
    [currentValue |-> 0, totalValue |-> total, isRunning |-> FALSE]

\* The bar of a run that constructs none
NoBar == createProgressBar(0)

barOnly == <<cmds, sort, cmdFromTerminal, cmdArgs, runCmdId, cmd, matched,
             selectedCmd, collectedArgs, argCursor, answer, rawArgs,
             commandArgs, parsed, positionalIndex, i, pc, stderr, stdout,
             invoked, exitCode>>

start ==
    /\ pc = "bar"
    /\ bar' = [bar EXCEPT !.isRunning = TRUE]
    /\ UNCHANGED barOnly

update ==
    /\ pc = "bar"
    /\ \E value \in Values :
        bar' = [bar EXCEPT !.currentValue = MathMin(value, bar.totalValue)]
    /\ UNCHANGED barOnly

increment ==
    /\ pc = "bar"
    /\ \E delta \in Deltas :
        bar' = [bar EXCEPT !.currentValue =
                               MathMin(bar.currentValue + delta, bar.totalValue)]
    /\ UNCHANGED barOnly

setTotal ==
    /\ pc = "bar"
    /\ \E total \in Totals :
        bar' = [bar EXCEPT !.totalValue = total]
    /\ UNCHANGED barOnly

stop ==
    /\ pc = "bar"
    /\ bar' = [bar EXCEPT !.isRunning = FALSE]
    /\ UNCHANGED barOnly

finish ==
    /\ pc = "bar"
    /\ bar' = [bar EXCEPT !.isRunning = FALSE]
    /\ UNCHANGED barOnly

InitBar ==
    /\ \E t \in Totals : bar = createProgressBar(t)
    /\ pc = "bar"
    /\ cmds = <<>>
    /\ sort = NoSort
    /\ cmdFromTerminal = Absent
    /\ cmdArgs = <<>>
    /\ runCmdId = Absent
    /\ cmd = ""
    /\ matched = 0
    /\ selectedCmd = ""
    /\ collectedArgs = <<>>
    /\ argCursor = 0
    /\ answer = NoAnswer
    /\ rawArgs = <<>>
    /\ commandArgs = NoArgs
    /\ parsed = <<>>
    /\ positionalIndex = 0
    /\ i = 0
    /\ stderr = <<>>
    /\ stdout = <<>>
    /\ invoked = <<>>
    /\ exitCode = NotExited

NextBar ==
    \/ start
    \/ update
    \/ increment
    \/ setTotal
    \/ stop
    \/ finish

SpecBar == InitBar /\ [][NextBar]_vars

-----------------------------------------------------------------------------
(* The argument summaries of the help texts: the `args:` line printHelp
   prints under a command and the `Usage:` line of printCmdHelp, as functions
   of the command's schema.  Colours are left out of the texts. *)

MaxHelpArgs == 3

HelpSchemas ==
    {NoArgs} \cup {Args(e) : e \in UNION {SchemasOfLen(n) : n \in 0..MaxHelpArgs}}

\* The comparator both summaries sort with: positional before the others,
\* 0 for two entries of the same group
positionalFirst(a, b) ==
    IF IsPositional(a) /\ ~IsPositional(b) THEN -1
    ELSE IF ~IsPositional(a) /\ IsPositional(b) THEN 1
    ELSE 0

RECURSIVE InsertSorted(_, _)
\* One step of the stable sort: x goes before the first entry it precedes
InsertSorted(sorted, x) ==
    IF sorted = <<>> THEN <<x>>
    ELSE IF positionalFirst(x, Head(sorted)) < 0 THEN <<x>> \o sorted
    ELSE <<Head(sorted)>> \o InsertSorted(Tail(sorted), x)

\* The entries as declared, unsorted
sortedArgsInOrder(entries) == entries

RECURSIVE sortedArgs(_)
\* typedObjectEntries(args).sort(comparator); Array.prototype.sort is stable
sortedArgs(entries) ==
    IF entries = <<>> THEN <<>>
    ELSE InsertSorted(sortedArgs(SubSeq(entries, 1, Len(entries) - 1)),
                      entries[Len(entries)])

\* The piece of the `args:` line for one entry
briefArg(argDef) ==
    IF IsPositional(argDef) THEN "[" \o argDef.name \o "]"
    ELSE "[--" \o argDef.name \o "]"

\* The piece of the `Usage:` line for one entry
formatArg(argDef) ==
    IF IsPositional(argDef) THEN "[" \o argDef.name \o "]"
    ELSE IF argDef.type = "flag" THEN "[--" \o argDef.name \o "]"
    ELSE IF argDef.type = "value-string-flag"
    THEN "[--" \o argDef.name \o " <value>]"
    ELSE "[--" \o argDef.name \o " <number>]"

RECURSIVE JoinSpace(_)
\* pieces.join(' ')
JoinSpace(pieces) ==
    IF pieces = <<>> THEN ""
    ELSE IF Len(pieces) = 1 THEN pieces[1]
    ELSE pieces[1] \o " " \o JoinSpace(Tail(pieces))

briefArgs(entries) ==
    LET sorted == sortedArgs(entries)
    IN  [j \in 1..Len(sorted) |-> briefArg(sorted[j])]

getArgsUsage(args) ==
    IF ~args.defined THEN <<>>
    ELSE LET sorted == sortedArgs(args.entries)
         IN  [j \in 1..Len(sorted) |-> formatArg(sorted[j])]

helpOnly == <<cmds, sort, cmdFromTerminal, cmdArgs, runCmdId, cmd, matched,
              selectedCmd, collectedArgs, argCursor, answer, bar, rawArgs,
              commandArgs, parsed, positionalIndex, i, stderr, invoked,
              exitCode>>

\* printHelp, for the one command whose schema is commandArgs: the `args:`
\* line, printed only for a schema with entries
PrintHelp ==
    /\ pc = "printHelp"
    /\ pc' = "printed"
    /\ stdout' =
         IF commandArgs.defined /\ Len(commandArgs.entries) > 0
         THEN LET pieces == briefArgs(commandArgs.entries)
              IN  Append(stdout, Prompt("args", " args: " \o JoinSpace(pieces),
                                        pieces))
         ELSE stdout
    /\ UNCHANGED helpOnly

\* printCmdHelp, for a command whose schema is commandArgs: the `Usage:`
\* line, to which the summary is added when it is not the empty string
PrintCmdHelp ==
    /\ pc = "printCmdHelp"
    /\ pc' = "printed"
    /\ LET pieces    == getArgsUsage(commandArgs)
           argsUsage == JoinSpace(pieces)
       IN  stdout' = Append(stdout,
                Prompt("usage",
                       IF commandArgs.defined /\ argsUsage # ""
                       THEN "Usage: " \o argsUsage ELSE "Usage:",
                       pieces))
    /\ UNCHANGED helpOnly

InitHelp ==
    /\ commandArgs \in HelpSchemas
    /\ pc \in {"printHelp", "printCmdHelp"}
    /\ stdout = <<>>
    /\ cmds = <<>>
    /\ sort = NoSort
    /\ cmdFromTerminal = Absent
    /\ cmdArgs = <<>>
    /\ runCmdId = Absent
    /\ cmd = ""
    /\ matched = 0
    /\ selectedCmd = ""
    /\ collectedArgs = <<>>
    /\ argCursor = 0
    /\ answer = NoAnswer
    /\ bar = NoBar
    /\ rawArgs = <<>>
    /\ parsed = <<>>
    /\ positionalIndex = 0
    /\ i = 0
    /\ stderr = <<>>
    /\ invoked = <<>>
    /\ exitCode = NotExited

NextHelp ==
    \/ PrintHelp
    \/ PrintCmdHelp

SpecHelp == InitHelp /\ [][NextHelp]_vars

-----------------------------------------------------------------------------
(* One invocation of createCLI *)

Init ==
    /\ cmds \in Registries
    /\ cmdFromTerminal \in CmdTokens
    /\ cmdArgs \in ArgvsAfter(cmdFromTerminal)
    /\ sort \in SortLists(cmds, cmdArgs)
    /\ runCmdId = Absent
    /\ cmd = ""
    /\ matched = 0
    /\ selectedCmd = ""
    /\ collectedArgs = <<>>
    /\ argCursor = 0
    /\ answer = NoAnswer
    /\ bar = NoBar
    /\ rawArgs = <<>>
    /\ commandArgs = NoArgs
    /\ parsed = <<>>
    /\ positionalIndex = 0
    /\ i = 0
    /\ pc = "createCLI"
    /\ stderr = <<>>
    /\ stdout = <<>>
    /\ invoked = <<>>
    /\ exitCode = NotExited

Next ==
    \/ ValidateShorts
    \/ ChooseAction
    \/ Dispatch
    \/ SelectCommand
    \/ SelectWithArgs
    \/ CollectArg
    \/ RunCollected
    \/ RunCmd
    \/ ParseStart
    \/ Scan
    \/ Validate
    \/ RunHandler
    \/ HandlerSettles
    \/ HandlerThrows

Spec == Init /\ [][Next]_vars

-----------------------------------------------------------------------------
(* The parser alone: parseArgs called with any schema and any argv *)

InitParse ==
    /\ rawArgs \in Argvs
    /\ commandArgs \in Schemas
    /\ parsed = <<>>
    /\ positionalIndex = 0
    /\ i = 0
    /\ pc = "parseArgs"
    /\ cmds = <<>>
    /\ sort = NoSort
    /\ cmdFromTerminal = Absent
    /\ cmdArgs = <<>>
    /\ runCmdId = Absent
    /\ cmd = ""
    /\ matched = 0
    /\ selectedCmd = ""
    /\ collectedArgs = <<>>
    /\ argCursor = 0
    /\ answer = NoAnswer
    /\ bar = NoBar
    /\ stderr = <<>>
    /\ stdout = <<>>
    /\ invoked = <<>>
    /\ exitCode = NotExited

NextParse ==
    \/ ParseStart
    \/ Scan
    \/ Validate

SpecParse == InitParse /\ [][NextParse]_vars

\* parseArgs is sequential code that runs to its return or to process.exit:
\* a step that can be taken is taken
SpecParseFair == SpecParse /\ WF_vars(NextParse)

-----------------------------------------------------------------------------
(* Properties of parseArgs, checked under SpecParse *)

\* parseArgs has ended: it returned a record or called process.exit
ParseEnded == pc \in {"parsed", "exited"}

\* what the call came to: the message of the process.exit(1), or the record
ParseResult ==
    [error |-> IF pc = "exited" THEN stderr[Len(stderr)] ELSE "",
     parsed |-> IF pc = "parsed" THEN parsed ELSE <<>>]

IsFlagToken(tok) == StartsWith(tok, "--")

\* the argument of the schema a `--` token names (0 when it names none)
NamedEntry(tok) == FindByName(commandArgs.entries, Slice(tok, 2))

IsBooleanFlagToken(tok) ==
    /\ IsFlagToken(tok)
    /\ NamedEntry(tok) # 0
    /\ commandArgs.entries[NamedEntry(tok)].type = "flag"

IsValueFlagToken(tok) ==
    /\ IsFlagToken(tok)
    /\ NamedEntry(tok) # 0
    /\ commandArgs.entries[NamedEntry(tok)].type
            \in {"value-string-flag", "value-number-flag"}

IsUnknownFlagToken(tok) == IsFlagToken(tok) /\ NamedEntry(tok) = 0

\* the positions of argv whose token does not start with `--`, in order
RECURSIVE PlainPositions(_, _)
PlainPositions(raw, from) ==
    IF from > Len(raw) THEN <<>>
    ELSE (IF IsFlagToken(raw[from]) THEN <<>> ELSE <<from>>)
            \o PlainPositions(raw, from + 1)

\* argv with the token at position p moved to position q
Move(raw, p, q) ==
    LET without == SubSeq(raw, 1, p - 1) \o SubSeq(raw, p + 1, Len(raw))
    IN  SubSeq(without, 1, q - 1) \o <<raw[p]>>
            \o SubSeq(without, q, Len(without))

\* the value a token gives a positional argument of the given type
Converted(type, tok) ==
    IF type = "positional-number" THEN Num(Number(tok).n) ELSE Str(tok)

OnlyBooleanFlags ==
    \A p \in 1..Len(rawArgs) :
        IsFlagToken(rawArgs[p]) => IsBooleanFlagToken(rawArgs[p])

SlotOf(j) ==
    Cardinality({k \in 1..j : IsPositional(commandArgs.entries[k])})

\* some token of argv was given to the j-th entry of the schema
TokenGiven(j) ==
    IF IsPositional(commandArgs.entries[j])
    THEN SlotOf(j) <= Len(PlainPositions(rawArgs, 1))
    ELSE \E p \in 1..Len(rawArgs) :
            IsFlagToken(rawArgs[p]) /\ NamedEntry(rawArgs[p]) = j

ScanOver == pc = "scan" /\ i >= Len(rawArgs)

\* the positional arguments without a default that no token was assigned to
Unfilled ==
    LET positionalArgs == PositionalArgs(commandArgs.entries)
    IN  {k \in 1..Len(positionalArgs) :
            k > positionalIndex /\ ~positionalArgs[k].hasDefault}

\* C3: when the scan is over and some positional argument declared without
\* a default has received no token, the next step reports
\* `Missing required argument <name>` for the first such argument in
\* declaration order, exits with status 1, returns no record and leaves the
\* field unset.
C3_MissingRequired ==
    [][(ScanOver /\ Unfilled # {}) =>
        LET positionalArgs == PositionalArgs(commandArgs.entries)
            first == CHOOSE k \in Unfilled : \A m \in Unfilled : k <= m
        IN  /\ pc' = "exited"
            /\ exitCode' = 1
            /\ stderr' = <<MsgMissingRequired(positionalArgs[first].name)>>
            /\ parsed' = parsed
            /\ \A k \in Unfilled : parsed[positionalArgs[k].key] = Undefined]_vars

\* parsing ended with the missing-argument error of the second positional
\* argument, the first one having received a token
C3_Witness ==
    /\ pc = "exited"
    /\ exitCode = 1
    /\ positionalIndex = 1
    /\ i = Len(rawArgs)
    /\ stderr = <<MsgMissingRequired("n")>>

\* the positions of argv whose token is `--X`, X the name of no argument
UnknownPositions ==
    {p \in 1..Len(rawArgs) : IsUnknownFlagToken(rawArgs[p])}

\* C4 as stated: a token `--X` naming no argument of the schema makes
\* parsing fail with `Unknown flag --X` and exit status 1, wherever the
\* token appears in argv.
C4_UnknownFlagAnywhere ==
    (ParseEnded /\ commandArgs.defined) =>
        \A p \in UnknownPositions :
            /\ pc = "exited"
            /\ exitCode = 1
            /\ stderr = <<MsgUnknownFlag(Slice(rawArgs[p], 2))>>

\* C4 (amended): a token `--X` naming no argument of the schema makes
\* parsing fail with exit status 1 and no record, wherever it appears; the
\* message is `Unknown flag --X` for the first such token when the tokens
\* before it scan without error, and is the error of those tokens otherwise
\* (an invalid number, or the missing value of a value flag right before it).
C4_UnknownFlagFails ==
    (ParseEnded /\ commandArgs.defined /\ UnknownPositions # {}) =>
        LET p == CHOOSE a \in UnknownPositions :
                    \A b \in UnknownPositions : a <= b
            before == ScanAll(SubSeq(rawArgs, 1, p - 1), commandArgs.entries,
                        ParseState(SeedDefaults(commandArgs.entries), 0, 0, ""))
        IN  /\ pc = "exited"
            /\ exitCode = 1
            /\ stderr = <<IF before.error = ""
                          THEN MsgUnknownFlag(Slice(rawArgs[p], 2))
                          ELSE before.error>>

\* parsing ended with the unknown-flag error of the second token of argv
C4_Witness ==
    /\ pc = "exited"
    /\ exitCode = 1
    /\ i = 1
    /\ Len(rawArgs) = 2
    /\ commandArgs.defined
    /\ IsUnknownFlagToken(rawArgs[2])
    /\ stderr = <<MsgUnknownFlag(Slice(rawArgs[2], 2))>>

\* the scan is at a `--X` token, X a value flag of the schema
AtValueFlag ==
    /\ pc = "scan"
    /\ i < Len(rawArgs)
    /\ IsValueFlagToken(rawArgs[i + 1])

\* the token after the cursor is missing for a value flag: there is none,
\* it is empty, or it starts with `--`
NoValueAfterCursor ==
    \/ i + 1 >= Len(rawArgs)
    \/ rawArgs[i + 2] = ""
    \/ StartsWith(rawArgs[i + 2], "--")

\* C5 as stated: the token after a value flag is never assigned to a
\* positional slot: either it is consumed as the flag's value (the cursor
\* advances by 2), or it is absent or starts with `--` and parsing fails
\* with `Missing value for --X` and exit status 1.
C5_ValueConsumedOrMissing ==
    [][AtValueFlag =>
        LET argDef == commandArgs.entries[NamedEntry(rawArgs[i + 1])]
        IN  /\ positionalIndex' = positionalIndex
            /\ \/ /\ pc' = "scan"
                  /\ i' = i + 2
                  /\ parsed'[argDef.key] # Undefined
               \/ /\ \/ i + 1 >= Len(rawArgs)
                     \/ StartsWith(rawArgs[i + 2], "--")
                  /\ pc' = "exited"
                  /\ exitCode' = 1
                  /\ stderr' = <<MsgMissingValue(argDef.name)>>]_vars

\* C5 (amended): the token after a value flag is never assigned to a
\* positional slot: either it is consumed as the flag's value (the cursor
\* advances by 2 and only the flag's field changes), or parsing fails with
\* exit status 1: with `Missing value for --X` when the token is absent,
\* empty or starts with `--`, and with `Invalid number "V" for --X` when the
\* flag is of number kind and the token is not a number.
C5_ValueNeverPositional ==
    [][AtValueFlag =>
        LET argDef == commandArgs.entries[NamedEntry(rawArgs[i + 1])]
            value  == rawArgs[i + 2]
            isNumber == argDef.type = "value-number-flag"
        IN  /\ positionalIndex' = positionalIndex
            /\ \A k \in DOMAIN parsed :
                    k # argDef.key => parsed'[k] = parsed[k]
            /\ IF NoValueAfterCursor
               THEN /\ pc' = "exited"
                    /\ exitCode' = 1
                    /\ stderr' = <<MsgMissingValue(argDef.name)>>
                    /\ parsed' = parsed
               ELSE IF isNumber /\ Number(value).isNaN
               THEN /\ pc' = "exited"
                    /\ exitCode' = 1
                    /\ stderr' = <<MsgInvalidFlagNumber(value, argDef.name)>>
                    /\ parsed' = parsed
               ELSE /\ pc' = "scan"
                    /\ i' = i + 2
                    /\ parsed'[argDef.key] =
                            IF isNumber THEN Num(Number(value).n)
                            ELSE Str(value)]_vars

\* the scan went over a value flag and its value: the cursor is behind both
\* and no positional slot was used
C5_Witness ==
    /\ pc = "scan"
    /\ i = 2
    /\ positionalIndex = 0
    /\ Len(rawArgs) = 2
    /\ IsValueFlagToken(rawArgs[1])
    /\ parsed[commandArgs.entries[NamedEntry(rawArgs[1])].key] = Str("a")

\* the scan is at a token that is not a number and that goes to a
\* positional-number slot
AtBadPositionalNumber ==
    /\ pc = "scan"
    /\ i < Len(rawArgs)
    /\ ~IsFlagToken(rawArgs[i + 1])
    /\ positionalIndex < Len(PositionalArgs(commandArgs.entries))
    /\ PositionalArgs(commandArgs.entries)[positionalIndex + 1].type
            = "positional-number"
    /\ Number(rawArgs[i + 1]).isNaN

\* the scan is at a value-number-flag whose value is not a number
AtBadFlagNumber ==
    /\ AtValueFlag
    /\ commandArgs.entries[NamedEntry(rawArgs[i + 1])].type
            = "value-number-flag"
    /\ ~NoValueAfterCursor
    /\ Number(rawArgs[i + 2]).isNaN

\* C6: a token that is not a number, assigned to a positional-number slot
\* or consumed as the value of a value-number-flag, makes parsing fail with
\* `Invalid number "V" for <name>` (positional) or
\* `Invalid number "V" for --<name>` (flag) and exit status 1, and no field
\* is written.
C6_InvalidNumber ==
    [][/\ AtBadPositionalNumber =>
            /\ pc' = "exited"
            /\ exitCode' = 1
            /\ stderr' = <<MsgInvalidNumber(rawArgs[i + 1],
                    PositionalArgs(commandArgs.entries)[positionalIndex + 1].name)>>
            /\ parsed' = parsed
       /\ AtBadFlagNumber =>
            /\ pc' = "exited"
            /\ exitCode' = 1
            /\ stderr' = <<MsgInvalidFlagNumber(rawArgs[i + 2],
                    commandArgs.entries[NamedEntry(rawArgs[i + 1])].name)>>
            /\ parsed' = parsed]_vars

\* parsing ended with the invalid-number error of the second positional
\* argument, whose field is unset
C6_Witness ==
    /\ pc = "exited"
    /\ exitCode = 1
    /\ i = 1
    /\ positionalIndex = 1
    /\ stderr = <<MsgInvalidNumber("a", "n")>>
    /\ DOMAIN parsed = {"k1", "k2"}
    /\ parsed["k1"] = Num(7)
    /\ parsed["k2"] = Undefined

-----------------------------------------------------------------------------
(* Properties of createCLI, checked under Spec *)

\* a line of stderr written by parseArgs
IsParseError(line) == StartsWith(line, "Error: ")

ParseErrorReported == \E k \in 1..Len(stderr) : IsParseError(stderr[k])

\* C7: when a parse error was reported (unknown flag, missing flag value,
\* invalid number, missing required positional) no handler was invoked and
\* the process has exited with status 1; and every handler invocation is of
\* the matched command, with the record an error-free parse of the
\* arguments returns.
C7_NoHandlerAfterParseError ==
    /\ ParseErrorReported =>
        /\ invoked = <<>>
        /\ pc = "exited"
        /\ exitCode = 1
    /\ \A k \in 1..Len(invoked) :
        LET result == ParseArgs(rawArgs, commandArgs)
        IN  /\ result.error = ""
            /\ invoked[k].args = result.parsed
            /\ invoked[k].cmdId = cmds[matched].id

\* the run of a command ended with a parse error after a token was parsed
C7_Witness ==
    /\ pc = "exited"
    /\ exitCode = 1
    /\ matched # 0
    /\ i = 1
    /\ stderr = <<MsgMissingValue("n")>>
    /\ invoked = <<>>

\* some command's short is one of the reserved `i` and `h`
ReservedShort(registry) ==
    \E j \in 1..Len(registry) :
        registry[j].short.defined /\ registry[j].short.s \in {"i", "h"}

\* two commands declare the same short
DuplicateShort(registry) ==
    \E j, k \in 1..Len(registry) :
        /\ j # k
        /\ registry[j].short.defined
        /\ registry[j].short = registry[k].short

\* C8: with a registry in which some short is `i` or `h`, or two commands
\* declare the same short, nothing happens but the exit with status 1,
\* whatever argv is: no handler is invoked, no help is printed and no prompt
\* is issued.
C8_BadAliasesRejected ==
    (ReservedShort(cmds) \/ DuplicateShort(cmds)) =>
        /\ invoked = <<>>
        /\ stdout = <<>>
        /\ pc \in {"createCLI", "exited"}
        /\ pc = "exited" => (exitCode = 1 /\ Len(stderr) = 1)

\* a registry with a duplicated short was rejected on an empty argv, before
\* the prompt
C8_Witness ==
    /\ pc = "exited"
    /\ exitCode = 1
    /\ DuplicateShort(cmds)
    /\ ~ReservedShort(cmds)
    /\ cmdFromTerminal = Absent
    /\ stdout = <<>>

\* the registry passes the alias validation
ValidRegistry(registry) ==
    ~ReservedShort(registry) /\ ~DuplicateShort(registry)

\* what an invocation came to: the handler invoked, its record, the status
Observed ==
    [handler |-> IF invoked = <<>> THEN "" ELSE invoked[1].cmdId,
     record  |-> IF invoked = <<>> THEN <<>> ELSE invoked[1].args,
     exit    |-> exitCode]

\* what the invocation `token args...` comes to when token is no built-in
\* and the handler settles
NamedRun(registry, token, args) ==
    LET m == Resolve(registry, token)
        result == ParseArgs(args, registry[m].args)
        Outcome(h, r, e) == [handler |-> h, record |-> r, exit |-> e]
    IN  IF m = 0 THEN Outcome("", <<>>, 1)
        ELSE IF HelpRequested(args) THEN Outcome("", <<>>, 0)
        ELSE IF result.error # "" THEN Outcome("", <<>>, 1)
        ELSE Outcome(registry[m].id, result.parsed, 0)

\* C9 as stated (for identifiers that are no built-in token): with a
\* registry that passes the alias validation, the invocation whose first
\* token is the short of a command invokes the same handler with the same
\* record and ends with the same status as the invocation whose first token
\* is the identifier of that command.
C9_AliasSameAsId ==
    \A k \in 1..Len(cmds) :
        (/\ ValidRegistry(cmds)
         /\ pc = "exited"
         /\ cmds[k].short.defined
         /\ cmdFromTerminal = cmds[k].short
         /\ cmds[k].id \notin HelpTokens \cup {"i"})
            => Observed = NamedRun(cmds, cmds[k].id, cmdArgs)

\* the commands a token matches, by identifier or by short
Matches(registry, token) ==
    {j \in 1..Len(registry) :
        \/ token = registry[j].id
        \/ (registry[j].short.defined /\ token = registry[j].short.s)}

\* C10 as stated: with a registry that passes the alias validation, at most
\* one command matches the token runCmd resolves.
C10_AtMostOneMatch ==
    (pc = "runCmd" /\ ValidRegistry(cmds)) =>
        Cardinality(Matches(cmds, cmd)) <= 1

-----------------------------------------------------------------------------
(* Properties of the dispatch, checked under Spec *)

\* the first token is one of the four help tokens
FirstIsHelpToken ==
    cmdFromTerminal.defined /\ cmdFromTerminal.s \in {"h", "-h", "--help", "help"}

\* the first token is `i` or a help token
FirstIsBuiltin == FirstIsHelpToken \/ cmdFromTerminal = Token("i")

\* the control positions of a run up to the dispatch
BeforeDispatch == {"createCLI", "dispatch"}

\* C11: with a registry that passes the alias validation, a run whose first
\* token is exactly one of `h`, `-h`, `--help`, `help` resolves no command,
\* invokes no handler and reports nothing; it can always go on until it has
\* exited, and then it has printed the top-level help and nothing else and
\* the status is 0.  This holds whatever the registry holds, a command
\* `hello` or a command whose short is `help` included.
C11_HelpTokenPrintsHelp ==
    (ValidRegistry(cmds) /\ FirstIsHelpToken) =>
        /\ invoked = <<>>
        /\ stderr = <<>>
        /\ matched = 0
        /\ pc \in BeforeDispatch \cup {"exited"}
        /\ pc \in BeforeDispatch => ENABLED Next
        /\ pc = "exited" => (exitCode = 0 /\ stdout = <<HelpEvent>>)

\* the token `help` printed the top-level help although it is the short of
\* a registered command
C11_Witness ==
    /\ pc = "exited"
    /\ exitCode = 0
    /\ cmdFromTerminal = Token("help")
    /\ \E k \in 1..Len(cmds) : cmds[k].short = Token("help")
    /\ ValidRegistry(cmds)
    /\ stdout = <<HelpEvent>>
    /\ invoked = <<>>

\* the first token is no built-in and is the identifier or the short of a
\* registered command
FirstNamesCommand ==
    /\ cmdFromTerminal.defined
    /\ ~FirstIsBuiltin
    /\ Matches(cmds, cmdFromTerminal.s) # {}

\* the remaining argv contains `-h` or `--help`
HelpAmongArgs == \E k \in 1..Len(cmdArgs) : cmdArgs[k] \in {"-h", "--help"}

\* C12: with a registry that passes the alias validation, a run whose first
\* token names a registered command and whose remaining argv contains `-h`
\* or `--help` at any position never parses the remaining argv, reports
\* nothing and invokes no handler, whatever the other tokens are; it can
\* always go on until it has exited, and then it has printed the help of the
\* command the token resolves to and nothing else and the status is 0.
C12_CommandHelp ==
    (ValidRegistry(cmds) /\ FirstNamesCommand /\ HelpAmongArgs) =>
        /\ invoked = <<>>
        /\ stderr = <<>>
        /\ parsed = <<>>
        /\ commandArgs = NoArgs
        /\ pc \in BeforeDispatch \cup {"runCmd", "exited"}
        /\ pc # "exited" => ENABLED Next
        /\ pc = "exited" =>
            /\ exitCode = 0
            /\ stdout = <<Event("cmdHelp",
                                cmds[Resolve(cmds, cmdFromTerminal.s)].id)>>

\* the help of `d` was printed for `d --n -h`, where `-h` stands after a
\* value flag of the command
C12_Witness ==
    /\ pc = "exited"
    /\ exitCode = 0
    /\ cmdFromTerminal = Token("d")
    /\ cmdArgs = <<"--n", "-h">>
    /\ ValidRegistry(cmds)
    /\ stdout = <<Event("cmdHelp", "d")>>
    /\ invoked = <<>>

\* the first token is no built-in and matches no identifier and no short
FirstMatchesNothing ==
    /\ cmdFromTerminal.defined
    /\ ~FirstIsBuiltin
    /\ Matches(cmds, cmdFromTerminal.s) = {}

\* what a run does with a first token that matches nothing
UnknownCommandReported ==
    /\ invoked = <<>>
    /\ pc \in BeforeDispatch \cup {"runCmd", "exited"}
    /\ pc # "exited" => (stderr = <<>> /\ stdout = <<>> /\ ENABLED Next)
    /\ pc = "exited" =>
        /\ exitCode = 1
        /\ stderr = <<"Command '" \o cmdFromTerminal.s \o "' not found">>
        /\ stdout = <<HelpEvent>>

\* C13 as stated: with a registry that passes the alias validation, a run
\* whose first token is no built-in and matches no identifier and no short
\* prints the error naming the token and then the top-level help, exits with
\* status 1 and invokes no handler.
C13_UnknownCommand ==
    (ValidRegistry(cmds) /\ FirstMatchesNothing) => UnknownCommandReported

\* C13 amended: the same, for a first token that is not the empty string
\* (an empty first token is taken for no token: the run issues the
\* choose-help-or-interactive prompt).
C13_UnknownNonEmptyCommand ==
    (ValidRegistry(cmds) /\ FirstMatchesNothing /\ cmdFromTerminal.s # "")
        => UnknownCommandReported

\* the token `zz` was reported and the help printed
C13_Witness ==
    /\ pc = "exited"
    /\ exitCode = 1
    /\ cmdFromTerminal = Token("zz")
    /\ ValidRegistry(cmds)
    /\ stderr = <<"Command 'zz' not found">>
    /\ stdout = <<HelpEvent>>
    /\ invoked = <<>>

\* the choose-help-or-interactive prompt
ChoosePrompt ==
    [kind |-> "select", text |-> "Choose an action",
     options |-> <<"run-cmd", "print-help">>]

\* the first menu of interactive mode
MenuPrompt ==
    [kind |-> "select", text |-> "Select a command", options |-> selectOptions]

\* C14: with a registry that passes the alias validation and no command
\* token in argv (or an empty one), the step after the validation is the
\* choose-help-or-interactive prompt, which is the first thing the run
\* prints, before any help and before any handler is invoked; when the
\* answer is `print-help` that step prints the top-level help and exits with
\* status 0 without any handler invoked; when the answer is `run-cmd` the
\* run goes on to interactive mode, whose next step issues the command menu.
C14_ChooseBeforeAnything ==
    [][(ValidRegistry(cmds) /\ ~Truthy(cmdFromTerminal)) =>
        /\ pc = "createCLI" =>
            (pc' = "chooseAction" /\ stdout' = <<>> /\ invoked' = <<>>)
        /\ pc = "chooseAction" =>
            /\ stdout = <<>>
            /\ invoked' = <<>>
            /\ stdout'[1] = ChoosePrompt
            /\ answer' = Returned("print-help") =>
                /\ stdout' = <<ChoosePrompt, HelpEvent>>
                /\ pc' = "exited"
                /\ exitCode' = 0
            /\ answer' = Returned("run-cmd") =>
                /\ stdout' = <<ChoosePrompt>>
                /\ pc' = "dispatch"
                /\ exitCode' = NotExited
        /\ pc = "dispatch" =>
            (pc' = "interactive" /\ stdout' = <<ChoosePrompt>>
                /\ invoked' = <<>>)
        /\ pc = "interactive" =>
            (stdout' = <<ChoosePrompt, MenuPrompt>> /\ invoked' = <<>>)
        /\ invoked' # <<>> => (stdout # <<>> /\ stdout[1] = ChoosePrompt)
      ]_vars

\* a handler was invoked in a run without command token, after the prompt
\* and the command menu
C14_Witness ==
    /\ cmdFromTerminal = Absent
    /\ ValidRegistry(cmds)
    /\ Len(stdout) >= 2
    /\ stdout[1] = ChoosePrompt
    /\ stdout[2] = MenuPrompt
    /\ invoked # <<>>

\* C15: a step that invokes a handler emits no exit status: the handler is
\* then running.  Once a handler has been invoked, status 0 is emitted only
\* by the step in which the running handler settles.  A step in which the
\* running handler throws or rejects emits no status and prints nothing, and
\* no step of the engine follows it: the failure is not caught and status 0
\* is never emitted.  This holds on the path of a named command as on the
\* path through the menus.
C15_ExitAfterHandlerSettles ==
    [][/\ invoked' # invoked =>
            /\ pc = "parsed"
            /\ pc' = "handler"
            /\ exitCode' = NotExited
       /\ (exitCode' = 0 /\ exitCode # 0 /\ invoked' # <<>>) =>
            /\ pc = "handler"
            /\ invoked' = invoked
       /\ pc' = "rejected" =>
            /\ pc = "handler"
            /\ exitCode' = NotExited
            /\ stderr' = stderr
            /\ stdout' = stdout
       /\ pc # "rejected"
      ]_vars

\* the handler of the named command `hello` failed: no status was emitted
C15_Witness ==
    /\ pc = "rejected"
    /\ cmdFromTerminal = Token("hello")
    /\ Len(invoked) = 1
    /\ invoked[1].cmdId = "hello"
    /\ exitCode = NotExited

-----------------------------------------------------------------------------
(* Properties of the help and of interactive mode, checked under Spec *)

\* the identifiers of the registry, in declaration order
DeclaredIds == [k \in 1..Len(cmds) |-> cmds[k].id]

\* the identifiers named by the sort list, in its order, followed by the
\* others in declaration order
SortedIds ==
    LET named(id) == \E k \in 1..Len(sort.list) : sort.list[k] = id
        unnamed(id) == ~named(id)
        declared(id) == \E k \in 1..Len(cmds) : cmds[k].id = id
    IN  SelectSeq(sort.list, declared) \o SelectSeq(DeclaredIds, unnamed)

\* the order in which the commands are to be shown
DisplayOrder == IF sort.defined THEN SortedIds ELSE DeclaredIds

\* C16 as stated: every top-level help the run prints lists the commands in
\* the order of the sort list when createCLI was given one, and in
\* declaration order otherwise.
C16_HelpFollowsSort ==
    \A k \in 1..Len(stdout) :
        stdout[k].kind = "help" => stdout[k].options = DisplayOrder

\* a command needs arguments: its schema has a positional without default
NeedsArguments(c) ==
    /\ c.args.defined
    /\ \E j \in 1..Len(c.args.entries) :
        /\ c.args.entries[j].type \in {"positional-string", "positional-number"}
        /\ ~c.args.entries[j].hasDefault

NeedsArgumentsIds ==
    {cmds[k].id : k \in {j \in 1..Len(cmds) : NeedsArguments(cmds[j])}}

DirectlyRunnableIds ==
    {cmds[k].id : k \in {j \in 1..Len(cmds) : ~NeedsArguments(cmds[j])}}

\* the k-th thing printed is a command menu
IsMenu(k) == stdout[k].kind = "select" /\ stdout[k].text = "Select a command"

\* every option of a menu is offered once
OfferedOnce(options) == Cardinality(Range(options)) = Len(options)

\* C17: the needs-arguments commands and the directly-runnable commands are
\* disjoint and make up the registry; the first command menu of a run offers,
\* each once, the directly-runnable commands and, if and only if some
\* command needs arguments, the sentinel; the second command menu offers,
\* each once, the needs-arguments commands.
C17_MenusPartition ==
    /\ NeedsArgumentsIds \cap DirectlyRunnableIds = {}
    /\ NeedsArgumentsIds \cup DirectlyRunnableIds = Range(DeclaredIds)
    /\ \A k \in 1..Len(stdout) :
        IsMenu(k) =>
            /\ OfferedOnce(stdout[k].options)
            /\ IF \E j \in 1..(k - 1) : IsMenu(j)
               THEN Range(stdout[k].options) = NeedsArgumentsIds
               ELSE Range(stdout[k].options) =
                        DirectlyRunnableIds \cup
                            (IF NeedsArgumentsIds # {}
                             THEN {"__run_with_args__"} ELSE {})

\* both menus were issued for a registry of a directly-runnable command and
\* a needs-arguments command
C17_Witness ==
    /\ pc = "collectArgs"
    /\ Len(stdout) >= 2
    /\ stdout[Len(stdout) - 1] =
            Prompt("select", "Select a command", <<"hello", "__run_with_args__">>)
    /\ stdout[Len(stdout)] = Prompt("select", "Select a command", <<"d">>)

\* the argument is a positional without default
IsRequiredPositional(arg) ==
    /\ arg.type \in {"positional-string", "positional-number"}
    /\ ~arg.hasDefault

\* the schema of the command picked in the second menu
SelectedEntries ==
    LET k == CHOOSE j \in 1..Len(cmds) : cmds[j].id = selectedCmd
    IN  cmds[k].args.entries

\* the prompt of a required positional
PromptOf(arg) ==
    [kind |-> IF arg.type = "positional-string" THEN "text" ELSE "number",
     text |-> arg.name, options |-> <<>>]

\* C18: while the arguments of the command picked in the second menu are
\* collected, what has been printed since that menu is one prompt for each
\* of the first argCursor positionals without default of its schema, in
\* declaration order, and nothing else (no prompt for a flag, a value flag
\* or a positional with a default); a step either issues the prompt of the
\* next such positional, appending the value it returns, if it returns one,
\* to the collected values, or, when every such positional has had its
\* prompt, and only then, dispatches the command with the collected values,
\* in prompt order, as argv.
C18_OnePromptPerRequired ==
    [][pc = "collectArgs" =>
        LET required == SelectSeq(SelectedEntries, IsRequiredPositional)
            menu == Len(stdout) - argCursor
        IN  /\ argCursor <= Len(required)
            /\ menu >= 1
            /\ IsMenu(menu)
            /\ stdout[menu].options = IdsOf(cmdsWithRequiredArgs)
            /\ \A k \in 1..argCursor :
                    stdout[menu + k] = PromptOf(required[k])
            /\ IF argCursor < Len(required)
               THEN /\ stdout' = Append(stdout, PromptOf(required[argCursor + 1]))
                    /\ pc' \in {"collectArgs", "exited"}
                    /\ pc' = "collectArgs" => argCursor' = argCursor + 1
                    /\ collectedArgs' =
                            IF answer'.t = "returned"
                            THEN Append(collectedArgs, answer'.value)
                            ELSE collectedArgs
                    /\ UNCHANGED <<cmd, rawArgs, invoked>>
               ELSE /\ pc' = "runCmd"
                    /\ cmd' = selectedCmd
                    /\ rawArgs' = collectedArgs
                    /\ UNCHANGED <<stdout, invoked, collectedArgs, exitCode>>
      ]_vars

\* `d` was dispatched with the two values collected by the prompts of its
\* two positionals without default, v and w
C18_Witness ==
    /\ pc = "runCmd"
    /\ selectedCmd = "d"
    /\ cmd = "d"
    /\ rawArgs = <<"42", "a">>
    /\ Len(stdout) >= 3
    /\ stdout[Len(stdout) - 2] = Prompt("select", "Select a command", <<"d">>)
    /\ stdout[Len(stdout) - 1] = Event("number", "v")
    /\ stdout[Len(stdout)] = Event("text", "w")

\* the numeric prompt returned null while the arguments of the selected
\* command were collected, and the command was dispatched afterwards
DispatchedAfterNull ==
    /\ selectedCmd # ""
    /\ \E k \in 1..Len(stderr) : stderr[k] = "prompt error"
    /\ \/ pc \in {"runCmd", "parseArgs", "scan", "parsed", "handler", "rejected"}
       \/ (pc = "exited" /\ matched # 0)

\* the token of the field is omitted: the synthetic argv has fewer tokens
\* than the schema has positionals without default
TokenOmitted ==
    Len(rawArgs) < Len(SelectSeq(SelectedEntries, IsRequiredPositional))

\* the last line of stderr
LastError == stderr[Len(stderr)]

IsCancellation(e) ==
    /\ e.isError
    /\ e.name \in {"ExitPromptError", "AbortError", "AbortPromptError"}

\* C20: for every prompt of cliInput (select, text, textWithAutocomplete,
\* confirm, multipleSelect, number) the catch block answers a cancellation
\* with process.exit(0), not with a value; and in a run of createCLI a step
\* whose prompt is cancelled emits status 0 and hands no value to the engine
\* (no command is chosen or selected, no argument is collected, no handler
\* is invoked), and no step follows an exit: no handler is invoked
\* afterwards.
C20_CancelExitsZero ==
    [][/\ \A kind \in PromptKinds : \A e \in Errors :
            IsCancellation(e) => Caught(kind, e) = Cancelled
       /\ (stdout' # stdout /\ answer'.t = "rejected"
                /\ IsCancellation(answer'.e)) =>
            /\ pc' = "exited"
            /\ exitCode' = 0
            /\ UNCHANGED <<runCmdId, cmd, selectedCmd, collectedArgs,
                           argCursor, rawArgs, stderr, invoked>>
       /\ pc # "exited"
      ]_vars

\* the numeric prompt of v was cancelled with ESC after `d` had been
\* selected: the run ended with status 0 and no handler was invoked
C20_Witness ==
    /\ pc = "exited"
    /\ exitCode = 0
    /\ selectedCmd = "d"
    /\ answer = Rejected(Thrown(TRUE, "AbortPromptError"))
    /\ stdout[Len(stdout)] = Event("number", "v")
    /\ collectedArgs = <<>>
    /\ invoked = <<>>

\* the kind of the prompt issued last
LastPromptKind(out) == out[Len(out)].kind

\* C21: for select, text, textWithAutocomplete, confirm and multipleSelect
\* the catch block answers an error that is no cancellation with the log
\* and process.exit(1), and for number with the log and null; and in a run
\* of createCLI a step whose prompt rejects with such an error logs it, and
\* either the prompt is the numeric one, and then no status is emitted, no
\* value is collected and the collection goes on with the next argument, or
\* the run ends with status 1.
C21_ErrorExitsOneButNumber ==
    [][/\ \A kind \in PromptKinds : \A e \in Errors :
            ~IsCancellation(e) =>
                Caught(kind, e) = IF kind = "number" THEN Null ELSE Failed
       /\ (stdout' # stdout /\ answer'.t = "rejected"
                /\ ~IsCancellation(answer'.e)) =>
            /\ stderr' = Append(stderr, "prompt error")
            /\ invoked' = invoked
            /\ collectedArgs' = collectedArgs
            /\ IF LastPromptKind(stdout') = "number"
               THEN /\ pc = "collectArgs"
                    /\ pc' = "collectArgs"
                    /\ exitCode' = NotExited
                    /\ argCursor' = argCursor + 1
               ELSE /\ pc' = "exited"
                    /\ exitCode' = 1
      ]_vars

\* the numeric prompt of v failed with an error that is no cancellation: the
\* error was logged and the collection goes on
C21_Witness ==
    /\ pc = "collectArgs"
    /\ exitCode = NotExited
    /\ selectedCmd = "d"
    /\ answer = Rejected(Thrown(TRUE, "ValidationError"))
    /\ stdout[Len(stdout)] = Event("number", "v")
    /\ stderr = <<"prompt error">>
    /\ argCursor = 1
    /\ collectedArgs = <<>>

-----------------------------------------------------------------------------
(* Properties of the progress bar, checked under SpecBar *)

\* C22: after any sequence of start, update, increment, setTotal, stop and
\* finish calls the reported value never exceeds the reported total.
C22_ValueWithinTotal ==
    pc = "bar" => bar.currentValue <= bar.totalValue

-----------------------------------------------------------------------------
(* Properties of the help texts, checked under SpecHelp *)

\* The piece a summary of the given kind shows for an entry
HelpPiece(kind, argDef) ==
    IF IsPositional(argDef) THEN "[" \o argDef.name \o "]"
    ELSE IF kind = "args" \/ argDef.type = "flag"
    THEN "[--" \o argDef.name \o "]"
    ELSE IF argDef.type = "value-string-flag"
    THEN "[--" \o argDef.name \o " <value>]"
    ELSE "[--" \o argDef.name \o " <number>]"

\* The places of a summary that show the j-th schema entry
PlacesOf(ev, j) ==
    {p \in 1..Len(ev.options) :
        ev.options[p] = HelpPiece(ev.kind, commandArgs.entries[j])}

\* C23: in the `args:` summary of the top-level help and in the `Usage:` line
\* of a command's help every schema entry appears exactly once, every
\* positional comes before every flag or value flag, and two entries of the
\* same group keep their declaration order.
C23_HelpArgumentOrder ==
    \A k \in 1..Len(stdout) :
        stdout[k].kind \in {"args", "usage"} =>
            LET ev == stdout[k]
                n  == Len(commandArgs.entries)
                at(j) == CHOOSE p \in PlacesOf(ev, j) : TRUE
            IN  /\ Len(ev.options) = n
                /\ \A j \in 1..n : Cardinality(PlacesOf(ev, j)) = 1
                /\ \A j1, j2 \in 1..n :
                     LET a == commandArgs.entries[j1]
                         b == commandArgs.entries[j2]
                     IN  /\ (IsPositional(a) /\ ~IsPositional(b)) =>
                                at(j1) < at(j2)
                         /\ (IsPositional(a) = IsPositional(b) /\ j1 < j2) =>
                                at(j1) < at(j2)

\* Both summaries of a schema that declares a positional after a flag and
\* after another positional
C23_Witness ==
    /\ pc = "printed"
    /\ Len(commandArgs.entries) = 3
    /\ IsPositional(commandArgs.entries[1])
    /\ commandArgs.entries[2].type = "value-number-flag"
    /\ IsPositional(commandArgs.entries[3])
    /\ stdout = <<Prompt("usage", "Usage: [v] [w] [--n <number>]",
                         <<"[v]", "[w]", "[--n <number>]">>)>>

-----------------------------------------------------------------------------
(* More properties of parseArgs, checked under SpecParse *)

RECURSIVE PlainScanned(_)
\* the positions of rawArgs, from the given one on, that the scan treats as
\* positional tokens: those that do not start with `--` and are not the
\* value of the value flag before them
PlainScanned(from) ==
    IF from > Len(rawArgs) THEN <<>>
    ELSE IF /\ IsValueFlagToken(rawArgs[from])
            /\ from < Len(rawArgs)
            /\ rawArgs[from + 1] # ""
            /\ ~IsFlagToken(rawArgs[from + 1])
    THEN PlainScanned(from + 2)
    ELSE IF IsFlagToken(rawArgs[from]) THEN PlainScanned(from + 1)
    ELSE <<from>> \o PlainScanned(from + 1)

\* the positions of the tokens beyond the declared positional arguments
SurplusPositions ==
    LET plain == PlainScanned(1)
        slots == Len(PositionalArgs(commandArgs.entries))
    IN  {plain[k] : k \in {n \in 1..Len(plain) : n > slots}}

RECURSIVE Keep(_, _)
\* rawArgs from the given position on, without the tokens at the positions
\* of the set
Keep(from, dropped) ==
    IF from > Len(rawArgs) THEN <<>>
    ELSE (IF from \in dropped THEN <<>> ELSE <<rawArgs[from]>>)
            \o Keep(from + 1, dropped)

\* C24: when argv holds more positional tokens than the schema declares
\* positional arguments, the call comes to what it comes to for the argv
\* without the surplus tokens: the same record, returned to runCmd, which
\* passes it to the handler, or the same error of another token.
C24_SurplusIgnored ==
    (ParseEnded /\ SurplusPositions # {}) =>
        LET trimmed == ParseArgs(Keep(1, SurplusPositions), commandArgs)
        IN  /\ ParseResult = trimmed
            /\ trimmed.error = "" => pc = "parsed" /\ stderr = <<>>

\* a record was returned for two plain tokens and a schema of one positional
\* argument
C24_Witness ==
    /\ pc = "parsed"
    /\ rawArgs = <<"a", "7">>
    /\ commandArgs = Args(<<ArgDef(1, "positional-string", FALSE)>>)
    /\ SurplusPositions = {2}
    /\ parsed = [k1 |-> Str("a")]

\* the scan is about to look at a token that starts with `--`
AtFlagToken ==
    /\ pc = "scan"
    /\ i < Len(rawArgs)
    /\ IsFlagToken(rawArgs[i + 1])

\* C25: every `--` token the scan looks at sets a declared boolean flag field
\* to true, or supplies with the following token the value of a declared
\* value-flag field, or ends the parse with an error; none is skipped
\* without effect and without error.
C25_FlagTokenEffect ==
    [][AtFlagToken =>
        LET tok == rawArgs[i + 1]
            j   == NamedEntry(tok)
        IN  \/ /\ IsBooleanFlagToken(tok)
               /\ parsed' = [parsed EXCEPT ![commandArgs.entries[j].key] =
                                               Bool(TRUE)]
               /\ i' = i + 1
               /\ pc' = "scan"
            \/ /\ IsValueFlagToken(tok)
               /\ i + 1 < Len(rawArgs)
               /\ parsed' =
                    [parsed EXCEPT ![commandArgs.entries[j].key] =
                        IF commandArgs.entries[j].type = "value-number-flag"
                        THEN Num(Number(rawArgs[i + 2]).n)
                        ELSE Str(rawArgs[i + 2])]
               /\ i' = i + 2
               /\ pc' = "scan"
            \/ /\ pc' = "exited"
               /\ exitCode' = 1
               /\ Len(stderr') = Len(stderr) + 1
      ]_vars

-----------------------------------------------------------------------------
(* More properties of createCLI, checked under Spec *)

\* the run is over, a command was picked in the second menu and every prompt
\* of the collection loop returned a value
AllPromptsAnswered ==
    /\ pc = "exited"
    /\ selectedCmd # ""
    /\ Len(collectedArgs) = Len(SelectSeq(SelectedEntries, IsRequiredPositional))

\* C26: in the interactive with-arguments flow, when every prompt returns a
\* value, the handler of the selected command is invoked and receives, for
\* each required positional field, the value entered at that field's prompt,
\* converted to a number for a numeric field.
C26_CollectedValuesReachHandler ==
    AllPromptsAnswered =>
        LET required == SelectSeq(SelectedEntries, IsRequiredPositional)
        IN  /\ Len(invoked) = 1
            /\ invoked[1].cmdId = selectedCmd
            /\ \A k \in 1..Len(required) :
                 invoked[1].args[required[k].key] =
                    Converted(required[k].type, collectedArgs[k])

\* the run is in interactive mode and runCmd was called with the identifier
\* picked in a menu, which is the value of cmd
InteractiveDispatched ==
    /\ runCmdId = Token("i")
    /\ cmd # ""

\* C27: in interactive mode, with a registry that passes the alias
\* validation, a handler that is invoked is the handler of the command
\* identifier picked in the menu (the first menu or the second one).
C27_OnlySelectedHandler ==
    (ValidRegistry(cmds) /\ InteractiveDispatched) =>
        \A k \in 1..Len(invoked) : invoked[k].cmdId = cmd

\* the run is over; its first argv token is the identifier of a registered
\* command, and the rest of argv asks for no help and parses without error
\* against the schema of that command
NamedByIdAndParses ==
    /\ pc = "exited"
    /\ cmdFromTerminal.defined
    /\ "-h" \notin Range(cmdArgs)
    /\ "--help" \notin Range(cmdArgs)
    /\ \E k \in 1..Len(cmds) :
         /\ cmds[k].id = cmdFromTerminal.s
         /\ ParseArgs(cmdArgs, cmds[k].args).error = ""

\* C28: with a registry that passes the alias validation, an invocation
\* whose first argv token is a registered command identifier K and whose
\* remaining argv parses without error against the schema of K invokes the
\* handler of K: no built-in token and no short of another command shadows
\* a registered command.
C28_IdInvokesOwnHandler ==
    (ValidRegistry(cmds) /\ NamedByIdAndParses) =>
        /\ Len(invoked) = 1
        /\ invoked[1].cmdId = cmdFromTerminal.s

\* C29: in every run of createCLI at most one handler is invoked, at most
\* once, by runCmd after the parse; an exit status is emitted by the step
\* that ends the run, and after it no step follows: no handler invocation,
\* no prompt and no parse.
C29_AtMostOneHandler ==
    [][/\ Len(invoked') <= 1
       /\ invoked' # invoked =>
            /\ invoked = <<>>
            /\ pc = "parsed"
            /\ exitCode' = NotExited
       /\ exitCode = NotExited
       /\ exitCode' # NotExited => pc' = "exited"
      ]_vars

\* an interactive run that ended with status 0 after the handler of the
\* command picked in the first menu had been invoked once
C29_Witness ==
    /\ pc = "exited"
    /\ exitCode = 0
    /\ runCmdId = Token("i")
    /\ cmd = "hello"
    /\ selectedCmd = ""
    /\ Len(invoked) = 1
    /\ invoked[1].cmdId = "hello"
    /\ Len(stdout) >= 2

-----------------------------------------------------------------------------
(* Termination of parseArgs, checked under SpecParseFair *)

\* C30: for every schema and argv the scan of the parser terminates, with
\* a returned record or a reported error: every iteration that reports no
\* error moves the cursor forward by 1 or by 2, the cursor never exceeds the
\* length of argv, and the positional-slot index never exceeds the number of
\* declared positional arguments.
C30_ScanTerminates ==
    /\ [][(pc = "scan" /\ i < Len(rawArgs)) =>
            \/ pc' = "scan" /\ i' - i \in {1, 2}
            \/ pc' = "exited" /\ exitCode' = 1 /\ i' = i
         ]_vars
    /\ [](/\ i <= Len(rawArgs)
          /\ positionalIndex <= Len(PositionalArgs(commandArgs.entries)))
    /\ <>ParseEnded

\* a record was returned after one iteration that moved the cursor by 2,
\* over a value flag and its value, to the end of argv
C30_Witness ==
    /\ pc = "parsed"
    /\ rawArgs = <<"--n", "7">>
    /\ i = 2
    /\ positionalIndex = 0
    /\ Len(commandArgs.entries) = 2
    /\ commandArgs.entries[2].type = "value-number-flag"
    /\ parsed["k2"] = Num(7)

====
